---- MODULE Spec2Model ----
(***************************************************************************)
(* A model of duratypes (src/src/duratypes/core.py): parse_duration and    *)
(* format_duration, with the regular expressions, Python's unbounded       *)
(* integers and IEEE-754 double arithmetic the two functions rest on.      *)
(*                                                                         *)
(* Text is a sequence of one-character strings.  A Python int is a record  *)
(* [neg, mag] whose magnitude is a little-endian sequence of limbs in base *)
(* 2^LimbBits without high zero limbs, so that no value is cut to the      *)
(* width of a machine word.  A Python float is [neg, m, e], the value      *)
(* m * 2^e with m a magnitude of exactly MantissaBits bits (or zero).      *)
(***************************************************************************)
EXTENDS Integers, Sequences, FiniteSets, TLC

(***************************************************************************)
(* Characters                                                              *)
(***************************************************************************)
Digits == <<"0", "1", "2", "3", "4", "5", "6", "7", "8", "9">>

UpperLetters == <<"A", "B", "C", "D", "E", "F", "G", "H", "I", "J", "K", "L", "M",
                  "N", "O", "P", "Q", "R", "S", "T", "U", "V", "W", "X", "Y", "Z">>

LowerLetters == <<"a", "b", "c", "d", "e", "f", "g", "h", "i", "j", "k", "l", "m",
                  "n", "o", "p", "q", "r", "s", "t", "u", "v", "w", "x", "y", "z">>

\* the class \d of the regular expressions (ASCII)
DigitChars == {Digits[i] : i \in 1..10}

IsDigit(c) == c \in DigitChars

DigitVal(c) == (CHOOSE i \in 1..10 : Digits[i] = c) - 1

DigitChar(d) == Digits[d + 1]

\* str.isspace() and the regex class \s, on the ASCII characters a TLA+
\* string can hold
SpaceChars == {" ", "\t", "\n", "\r", "\f"}

IsSpace(c) == c \in SpaceChars

\* str.lower() on one character
LowerChar(c) ==
    IF \E i \in 1..26 : UpperLetters[i] = c
    THEN LowerLetters[CHOOSE i \in 1..26 : UpperLetters[i] = c]
    ELSE c

\* str.lower()
Lower(s) == [i \in 1..Len(s) |-> LowerChar(s[i])]

\* s[i:j] of Python, on 0-based positions i <= j
Slice(s, i, j) == SubSeq(s, i + 1, j)

\* s.startswith(p)
StartsWith(s, p) == Len(s) >= Len(p) /\ SubSeq(s, 1, Len(p)) = p

RECURSIVE LStrip(_)
LStrip(s) == IF s # <<>> /\ IsSpace(s[1]) THEN LStrip(Tail(s)) ELSE s

RECURSIVE RStrip(_)
RStrip(s) ==
    IF s # <<>> /\ IsSpace(s[Len(s)]) THEN RStrip(SubSeq(s, 1, Len(s) - 1)) ELSE s

\* str.strip()
Strip(s) == RStrip(LStrip(s))

(***************************************************************************)
(* Unbounded naturals: little-endian limb sequences without high zeros     *)
(***************************************************************************)
LimbBits == 15

Base == 2^LimbBits

RECURSIVE BigNorm(_)
BigNorm(b) ==
    IF b # <<>> /\ b[Len(b)] = 0 THEN BigNorm(SubSeq(b, 1, Len(b) - 1)) ELSE b

RECURSIVE BigFromNat(_)
BigFromNat(n) == IF n = 0 THEN <<>> ELSE <<n % Base>> \o BigFromNat(n \div Base)

BigLimb(b, i) == IF 1 <= i /\ i <= Len(b) THEN b[i] ELSE 0

RECURSIVE BigAddC(_, _, _, _)
BigAddC(a, b, i, c) ==
    IF i > Len(a) /\ i > Len(b)
    THEN (IF c = 0 THEN <<>> ELSE <<c>>)
    ELSE LET t == BigLimb(a, i) + BigLimb(b, i) + c
         IN  <<t % Base>> \o BigAddC(a, b, i + 1, t \div Base)

BigAdd(a, b) == BigAddC(a, b, 1, 0)

\* a - b for a >= b
RECURSIVE BigSubB(_, _, _, _)
BigSubB(a, b, i, br) ==
    IF i > Len(a)
    THEN <<>>
    ELSE LET t == a[i] - BigLimb(b, i) - br
         IN  <<t % Base>> \o BigSubB(a, b, i + 1, IF t < 0 THEN 1 ELSE 0)

BigSub(a, b) == BigNorm(BigSubB(a, b, 1, 0))

\* -1, 0, 1 as a < b, a = b, a > b
BigCmp(a, b) ==
    IF Len(a) > Len(b) THEN 1
    ELSE IF Len(a) < Len(b) THEN -1
    ELSE LET D == {i \in 1..Len(a) : a[i] # b[i]}
         IN  IF D = {} THEN 0
             ELSE LET k == CHOOSE i \in D : \A j \in D : j <= i
                  IN  IF a[k] > b[k] THEN 1 ELSE -1

\* a * c for 0 <= c < Base
RECURSIVE BigMulC(_, _, _, _)
BigMulC(a, c, i, carry) ==
    IF i > Len(a)
    THEN (IF carry = 0 THEN <<>> ELSE <<carry>>)
    ELSE LET t == a[i] * c + carry
         IN  <<t % Base>> \o BigMulC(a, c, i + 1, t \div Base)

BigMulLimb(a, c) == BigNorm(BigMulC(a, c, 1, 0))

\* a * c for 0 <= c < Base^2
BigMulSmall(a, c) ==
    LET hi == BigMulLimb(a, c \div Base)
    IN  BigAdd(BigMulLimb(a, c % Base), IF hi = <<>> THEN hi ELSE <<0>> \o hi)

\* the number of bits of a
BigBitLen(a) ==
    IF a = <<>> THEN 0
    ELSE LimbBits * (Len(a) - 1)
         + (CHOOSE k \in 1..LimbBits : 2^(k - 1) <= a[Len(a)] /\ a[Len(a)] < 2^k)

\* bit i of a, the lowest being bit 1
BigBit(a, i) == (BigLimb(a, (i - 1) \div LimbBits + 1) \div 2^((i - 1) % LimbBits)) % 2

\* whether one of the k lowest bits of a is set
BigLowBitsSet(a, k) ==
    \/ \E i \in 1..(k \div LimbBits) : BigLimb(a, i) # 0
    \/ BigLimb(a, k \div LimbBits + 1) % 2^(k % LimbBits) # 0

\* floor(a / 2^k)
BigShr(a, k) ==
    LET q == k \div LimbBits
        r == k % LimbBits
    IN  BigNorm([i \in 1..(Len(a) - q) |->
                    (a[i + q] \div 2^r) + (BigLimb(a, i + q + 1) % 2^r) * 2^(LimbBits - r)])

\* a * 2^k
BigShl(a, k) ==
    LET q == k \div LimbBits
        r == k % LimbBits
    IN  IF a = <<>> THEN a
        ELSE BigNorm([i \in 1..(Len(a) + q + 1) |->
                         IF i <= q THEN 0
                         ELSE (BigLimb(a, i - q) % 2^(LimbBits - r)) * 2^r
                              + BigLimb(a, i - q - 1) \div 2^(LimbBits - r)])

\* divmod(t, d) of one five-bit digit step of the long division
DivStep(r, digit, d) == [q |-> (32 * r + digit) \div d, r |-> (32 * r + digit) % d]

\* divmod(a, d) for 0 < d <= 2^25: long division from the high limb, each
\* limb taken as three five-bit digits so that no step leaves 31 bits
RECURSIVE BigDivFrom(_, _, _, _, _)
BigDivFrom(a, d, i, q, r) ==
    IF i = 0
    THEN [q |-> BigNorm(q), r |-> r]
    ELSE LET s2 == DivStep(r, a[i] \div 1024, d)
             s1 == DivStep(s2.r, (a[i] \div 32) % 32, d)
             s0 == DivStep(s1.r, a[i] % 32, d)
         IN  BigDivFrom(a, d, i - 1, <<1024 * s2.q + 32 * s1.q + s0.q>> \o q, s0.r)

BigDivMod(a, d) == BigDivFrom(a, d, Len(a), <<>>, 0)

(***************************************************************************)
(* Python int: sign and unbounded magnitude                                *)
(***************************************************************************)
PyInt(n) == [neg |-> n < 0, mag |-> BigFromNat(IF n < 0 THEN -n ELSE n)]

MkInt(neg, mag) == [neg |-> neg /\ mag # <<>>, mag |-> mag]

\* -x
IntNeg(x) == MkInt(~x.neg, x.mag)

\* sign * x for sign in {1, -1}
IntTimesSign(sign, x) == IF sign = -1 THEN IntNeg(x) ELSE x

(***************************************************************************)
(* Python float: IEEE-754 binary64, round to nearest, ties to even.        *)
(* Values stay far inside the exponent range, so there are no subnormals   *)
(* and no overflow to infinity in the arithmetic below.                    *)
(***************************************************************************)
MantissaBits == 53

FZero == [neg |-> FALSE, m |-> <<>>, e |-> 0]

\* the float m * 2^e for a magnitude m of at most MantissaBits bits
FNorm(neg, m, e) ==
    IF m = <<>> THEN FZero
    ELSE LET up == MantissaBits - BigBitLen(m)
         IN  [neg |-> neg, m |-> BigShl(m, up), e |-> e - up]

\* the float nearest to (m + fraction) * 2^e, where sticky says that a
\* non-zero fraction below the lowest bit of m was dropped (m then has more
\* than MantissaBits bits)
FRound(neg, m, e, sticky) ==
    IF BigBitLen(m) <= MantissaBits
    THEN FNorm(neg, m, e)
    ELSE LET d     == BigBitLen(m) - MantissaBits
             kept  == BigShr(m, d)
             guard == BigBit(m, d)
             rest  == sticky \/ BigLowBitsSet(m, d - 1)
             up    == guard = 1 /\ (rest \/ BigBit(kept, 1) = 1)
             r     == IF up THEN BigAdd(kept, <<1>>) ELSE kept
         IN  IF BigBitLen(r) > MantissaBits
             THEN FNorm(neg, BigShr(r, 1), e + d + 1)
             ELSE FNorm(neg, r, e + d)

\* the float nearest to num / den for 0 < den <= 2^25: the quotient is
\* taken with DivShift binary places, enough to leave more than
\* MantissaBits + 1 bits, and the remainder is the sticky bit
DivShift == 96

FloatOfRatio(neg, num, den) ==
    IF num = <<>> THEN FZero
    ELSE LET qr == BigDivMod(BigShl(num, DivShift), den)
         IN  FRound(neg, qr.q, -DivShift, qr.r # 0)

\* a * c for a float a and an int constant 0 <= c < 2^30 (c converts
\* exactly)
FMulConst(a, c) == FRound(a.neg, BigMulSmall(a.m, c), a.e, FALSE)

\* a + b
FAdd(a, b) ==
    IF a.m = <<>> THEN b
    ELSE IF b.m = <<>> THEN a
    ELSE LET e  == IF a.e < b.e THEN a.e ELSE b.e
             am == BigShl(a.m, a.e - e)
             bm == BigShl(b.m, b.e - e)
         IN  IF a.neg = b.neg
             THEN FRound(a.neg, BigAdd(am, bm), e, FALSE)
             ELSE IF BigCmp(am, bm) >= 0
             THEN FRound(a.neg, BigSub(am, bm), e, FALSE)
             ELSE FRound(b.neg, BigSub(bm, am), e, FALSE)

\* floor(f), what int(f) would be if it rounded down
IntOfFloatFloor(f) ==
    IF f.e >= 0 THEN MkInt(f.neg, BigShl(f.m, f.e))
    ELSE IF f.neg /\ BigLowBitsSet(f.m, -f.e)
    THEN MkInt(TRUE, BigAdd(BigShr(f.m, -f.e), <<1>>))
    ELSE MkInt(f.neg, BigShr(f.m, -f.e))

\* int(f): truncation toward zero
IntOfFloat(f) ==
    MkInt(f.neg, IF f.e >= 0 THEN BigShl(f.m, f.e) ELSE BigShr(f.m, -f.e))

(***************************************************************************)
(* Python values, results and exceptions                                   *)
(***************************************************************************)
NoneValue == [type |-> "NoneType"]

IntValue(x) == [type |-> "int", val |-> x]

\* a float is "finite" with a value, or "nan", "inf", "-inf"
FloatValue(f) == [type |-> "float", special |-> "finite", val |-> f]

SpecialFloat(which) == [type |-> "float", special |-> which, val |-> FZero]

StrValue(s) == [type |-> "str", s |-> s]

\* a value of any other type: "list", "dict", "tuple", "object"
OtherValue(t) == [type |-> t]

\* isinstance(v, (int, float))
IsNumeric(v) == v.type \in {"int", "float"}

Return(x) == [ok |-> TRUE, val |-> x]

Raise(cls, msg) == [ok |-> FALSE, err |-> cls, msg |-> msg]

\* the direct base classes of the exception classes, the built-in ones as
\* Python defines them
ClassBases ==
    [c \in {"DurationError", "InvalidFormatError", "InvalidTypeError",
            "InvalidValueError", "ValidationError", "ValueError", "TypeError",
            "OverflowError", "ArithmeticError", "Exception"} |->
        CASE c = "DurationError"      -> {"ValueError"}
          [] c = "ValidationError"    -> {"ValueError"}
          [] c = "InvalidFormatError" -> {"DurationError"}
          [] c = "InvalidTypeError"   -> {"DurationError", "TypeError"}
          [] c = "InvalidValueError"  -> {"DurationError"}
          [] c = "ValueError"         -> {"Exception"}
          [] c = "TypeError"          -> {"Exception"}
          [] c = "OverflowError"      -> {"ArithmeticError"}
          [] c = "ArithmeticError"    -> {"Exception"}
          [] OTHER                    -> {}]

\* issubclass(cls, base)
RECURSIVE IsSubclass(_, _)
IsSubclass(cls, base) ==
    cls = base \/ \E b \in ClassBases[cls] : IsSubclass(b, base)

\* int(v) of Python for an int or float v
IntOf(v) ==
    IF v.type = "int" THEN Return(v.val)
    ELSE IF v.special = "finite" THEN Return(IntOfFloat(v.val))
    ELSE IF v.special = "nan"
    THEN Raise("ValueError", "cannot convert float NaN to integer")
    ELSE Raise("OverflowError", "cannot convert float infinity to integer")

\* v != v
NotEqualToItself(v) == v.type = "float" /\ v.special = "nan"

(***************************************************************************)
(* Constants for time unit conversions                                     *)
(***************************************************************************)
SECONDS_PER_MINUTE == 60

SECONDS_PER_HOUR == 3600

SECONDS_PER_DAY == 86400

SECONDS_PER_WEEK == 604800

SECONDS_PER_MONTH == 2592000

SECONDS_PER_YEAR == 31536000

(***************************************************************************)
(* Regular expressions.  Positions are 0-based offsets as in Python's re;  *)
(* NoMatch is an end offset no match has.                                  *)
(***************************************************************************)
NoMatch == -1

\* the character at offset i, "" past the end
CharAt(s, i) == IF 0 <= i /\ i < Len(s) THEN s[i + 1] ELSE ""

\* whether the literal lit is at offset i as it is written
LitAtAsWritten(s, i, lit) ==
    /\ i + Len(lit) <= Len(s)
    /\ \A k \in 1..Len(lit) : s[i + k] = lit[k]

\* whether the literal lit, matched without regard to case, is at offset i
LitAt(s, i, lit) ==
    /\ i + Len(lit) <= Len(s)
    /\ \A k \in 1..Len(lit) : LowerChar(s[i + k]) = lit[k]

\* the end of (?:lit)? at offset i
OptLit(s, i, lit) == IF LitAt(s, i, lit) THEN i + Len(lit) ELSE i

\* the end of the longest run of characters of a class that starts at i
RunEnd(s, i, class) ==
    IF i >= Len(s) THEN i
    ELSE CHOOSE j \in i..Len(s) :
            /\ \A k \in i..(j - 1) : s[k + 1] \in class
            /\ j = Len(s) \/ s[j + 1] \notin class

\* the end of a decimal that may begin with a sign
DecimalEndSigned(s, i) ==
    LET a == IF CharAt(s, i) \in {"+", "-"} THEN i + 1 ELSE i
        j == RunEnd(s, a, DigitChars)
        k == RunEnd(s, j + 1, DigitChars)
    IN  IF j = a THEN NoMatch
        ELSE IF CharAt(s, j) = "." /\ j + 1 <= Len(s) /\ k > j + 1 THEN k
        ELSE j

\* the end of \d+(?:\.\d+)? at offset i
DecimalEnd(s, i) ==
    LET j == RunEnd(s, i, DigitChars)
        k == RunEnd(s, j + 1, DigitChars)
    IN  IF j = i THEN NoMatch
        ELSE IF CharAt(s, j) = "." /\ j + 1 <= Len(s) /\ k > j + 1 THEN k
        ELSE j

\* the end of [+-]?\d+(?:\.\d+)? at offset i
SignedDecimalEnd(s, i) ==
    DecimalEnd(s, IF CharAt(s, i) \in {"+", "-"} THEN i + 1 ELSE i)

\* the end of \d+ at offset i
IntegerEnd(s, i) ==
    LET j == RunEnd(s, i, DigitChars) IN IF j = i THEN NoMatch ELSE j

\* head(?:mid)?s?
UnitPlain(s, i, head, mid) ==
    IF LitAt(s, i, head)
    THEN OptLit(s, OptLit(s, i + Len(head), mid), <<"s">>)
    ELSE NoMatch

\* head(?:mid(?:tail)?s?)?
UnitNested(s, i, head, mid, tail) ==
    IF ~LitAt(s, i, head) THEN NoMatch
    ELSE IF LitAt(s, i + Len(head), mid)
    THEN OptLit(s, OptLit(s, i + Len(head) + Len(mid), tail), <<"s">>)
    ELSE i + Len(head)

\* the alternatives of the group "unit" in the order of the pattern: the
\* first that matches is taken
UnitAlternatives(s, i) ==
    << UnitPlain(s, i, <<"y">>, <<"e", "a", "r">>),
       UnitPlain(s, i, <<"m", "o">>, <<"n", "t", "h">>),
       UnitPlain(s, i, <<"w">>, <<"e", "e", "k">>),
       UnitPlain(s, i, <<"d">>, <<"a", "y">>),
       UnitPlain(s, i, <<"h">>, <<"o", "u", "r">>),
       UnitNested(s, i, <<"m">>, <<"i", "n">>, <<"u", "t", "e">>),
       UnitNested(s, i, <<"s">>, <<"e", "c">>, <<"o", "n", "d">>) >>

\* the least element of a set of offsets, NoMatch for the empty set
FirstOf(offsets) ==
    IF offsets = {} THEN NoMatch
    ELSE CHOOSE i \in offsets : \A j \in offsets : i <= j

\* the end of the first alternative that matches
FirstAlternative(alts) ==
    IF \A a \in 1..Len(alts) : alts[a] = NoMatch THEN NoMatch
    ELSE alts[CHOOSE a \in 1..Len(alts) :
                /\ alts[a] # NoMatch
                /\ \A b \in 1..(a - 1) : alts[b] = NoMatch]

UnitEnd(s, i) == FirstAlternative(UnitAlternatives(s, i))

\* a match of _COMPOUND_RE, or none (end = NoMatch)
MatchObject(s, i, j, k, e) ==
    IF e = NoMatch
    THEN [start |-> i, end |-> NoMatch, value |-> <<>>, unit |-> <<>>]
    ELSE [start |-> i, end |-> e, value |-> Slice(s, i, j), unit |-> Slice(s, k, e)]

\* the group "unit" at offset k, after a value that ends at j
CompoundUnitAt(s, i, j, k) == MatchObject(s, i, j, k, UnitEnd(s, k))

\* the unit right after a value that ends at j, no white space between
CompoundAfterValueNoSpace(s, i, j) ==
    IF j = NoMatch THEN MatchObject(s, i, j, j, NoMatch)
    ELSE CompoundUnitAt(s, i, j, j)

\* \s* and the unit after a value that ends at j
CompoundAfterValue(s, i, j) ==
    IF j = NoMatch THEN MatchObject(s, i, j, j, NoMatch)
    ELSE CompoundUnitAt(s, i, j, RunEnd(s, j, SpaceChars))

\* _COMPOUND_RE matched at offset i: value, \s*, unit
CompoundMatchAt(s, i) == CompoundAfterValue(s, i, DecimalEnd(s, i))

\* _COMPOUND_RE.finditer(s) from offset pos on: the leftmost match, then
\* the matches after its end
RECURSIVE CompoundFindIter(_, _)
MatchAndRest(s, m) == <<m>> \o CompoundFindIter(s, m.end)

MatchesFrom(s, start) ==
    IF start = NoMatch THEN <<>> ELSE MatchAndRest(s, CompoundMatchAt(s, start))

CompoundFindIter(s, pos) ==
    MatchesFrom(s, FirstOf({i \in pos..(Len(s) - 1) : CompoundMatchAt(s, i).end # NoMatch}))

\* one optional component (?:(number)letter)? of _ISO_RE at offset i, the
\* number ending at j (NoMatch if there is no number): the offset after the
\* component and the text of the number, or the unchanged offset and no text
IsoComponentEnd(s, i, j, letter) ==
    IF j # NoMatch /\ LitAt(s, j, <<letter>>)
    THEN [end |-> j + 1, text |-> Slice(s, i, j)]
    ELSE [end |-> i, text |-> <<>>]

\* a grammar without the component at offset i
IsoNoComponent(s, i, letter) == [end |-> i, text |-> <<>>]

\* (?:\d+Y)? and (?:\d+M)?
IsoIntegerComponent(s, i, letter) == IsoComponentEnd(s, i, IntegerEnd(s, i), letter)

\* (?:(?P<d>\d+(?:\.\d+)?)D)?
IsoDecimalComponent(s, i, letter) == IsoComponentEnd(s, i, DecimalEnd(s, i), letter)

\* (?:(?P<h>[+-]?\d+(?:\.\d+)?)H)? and the like
IsoSignedComponent(s, i, letter) ==
    IsoComponentEnd(s, i, SignedDecimalEnd(s, i), letter)

IsoNoMatch ==
    [matched |-> FALSE, sign |-> <<>>, d |-> <<>>, h |-> <<>>, m |-> <<>>, s |-> <<>>]

\* a match of _ISO_RE that may end before the text ends
IsoEndOfPrefix(s, p0, end, d, h, m, sec) ==
    [matched |-> TRUE, sign |-> Slice(s, 0, p0), d |-> d, h |-> h, m |-> m, s |-> sec]

\* the $ of _ISO_RE under fullmatch: the match has to end where the text ends
IsoEnd(s, p0, end, d, h, m, sec) ==
    IF end = Len(s)
    THEN [matched |-> TRUE, sign |-> Slice(s, 0, p0), d |-> d, h |-> h, m |-> m, s |-> sec]
    ELSE IsoNoMatch

IsoSeconds(s, p0, d, h, m, sec) == IsoEnd(s, p0, sec.end, d, h, m, sec.text)

IsoMinutes(s, p0, d, h, m) ==
    IsoSeconds(s, p0, d, h, m.text, IsoSignedComponent(s, m.end, "s"))

IsoHours(s, p0, d, h) == IsoMinutes(s, p0, d, h.text, IsoSignedComponent(s, h.end, "m"))

\* the time components after the day component d, with or without the T
IsoTimeOptionalT(s, p0, d) ==
    IsoHours(s, p0, d.text,
             IsoSignedComponent(s, IF LitAt(s, d.end, <<"t">>) THEN d.end + 1 ELSE d.end,
                                "h"))

\* (?:T ...)? after the day component d
IsoTime(s, p0, d) ==
    IF LitAt(s, d.end, <<"t">>)
    THEN IsoHours(s, p0, d.text, IsoSignedComponent(s, d.end + 1, "h"))
    ELSE IsoEnd(s, p0, d.end, d.text, <<>>, <<>>, <<>>)

IsoDays(s, p0, mo) == IsoTime(s, p0, IsoDecimalComponent(s, mo.end, "d"))

IsoMonths(s, p0, y) == IsoDays(s, p0, IsoIntegerComponent(s, y.end, "m"))

\* the components at offset p0, after a P or without one
IsoBodyOptionalP(s, p0) ==
    IsoMonths(s, p0,
              IsoIntegerComponent(s, IF LitAt(s, p0, <<"p">>) THEN p0 + 1 ELSE p0, "y"))

\* P and what follows, at offset p0 after the optional sign
IsoBody(s, p0) ==
    IF LitAt(s, p0, <<"p">>)
    THEN IsoMonths(s, p0, IsoIntegerComponent(s, p0 + 1, "y"))
    ELSE IsoNoMatch

\* _ISO_RE.fullmatch(s): whether it matches, and the groups sign, d, h, m, s
\* (<<>> for a group that took no part)
IsoFullMatch(s) == IsoBody(s, IF CharAt(s, 0) \in {"+", "-"} THEN 1 ELSE 0)

\* the match of _LEADING_SIGN for \s* ending at j and .* ending at last
LeadingSignGroups(s, j, last) ==
    IF CharAt(s, 0) \in {"+", "-"} /\ \A k \in j..(last - 1) : CharAt(s, k) # "\n"
    THEN [matched |-> TRUE, sign |-> s[1], rest |-> Slice(s, j, last)]
    ELSE [matched |-> FALSE, sign |-> "", rest |-> <<>>]

\* the offset of the $ of _LEADING_SIGN: the end of the text, or before a
\* newline that ends it
LeadingSignRest(s, j) ==
    LeadingSignGroups(s, j, IF CharAt(s, Len(s) - 1) = "\n" /\ Len(s) - 1 >= j
                            THEN Len(s) - 1 ELSE Len(s))

\* _LEADING_SIGN.match(s): a sign, \s*, then .* up to the $; "." matches no
\* newline
LeadingSignMatch(s) == LeadingSignRest(s, RunEnd(s, 1, SpaceChars))

(***************************************************************************)
(* float(text) and str(int)                                                *)
(***************************************************************************)
\* the magnitude written by a run of digits
RECURSIVE DigitsToBig(_, _)
DigitsToBig(ds, acc) ==
    IF ds = <<>> THEN acc
    ELSE DigitsToBig(Tail(ds), BigAdd(BigMulLimb(acc, 10), BigFromNat(DigitVal(ds[1]))))

\* the float nearest to digits * 10^-places
FloatOfDigits(neg, digits, places) ==
    IF places = 0
    THEN FRound(neg, DigitsToBig(digits, <<>>), 0, FALSE)
    ELSE FloatOfRatio(neg, DigitsToBig(digits, <<>>), 10^places)

\* the unsigned text body with its decimal point at index dot (past the end
\* if it has none)
FloatOfBody(neg, body, dot) ==
    FloatOfDigits(neg,
                  SubSeq(body, 1, dot - 1) \o SubSeq(body, dot + 1, Len(body)),
                  IF dot > Len(body) THEN 0 ELSE Len(body) - dot)

FloatOfUnsigned(neg, body) ==
    FloatOfBody(neg, body,
                CHOOSE i \in 1..(Len(body) + 1) :
                    /\ i = Len(body) + 1 \/ body[i] = "."
                    /\ \A k \in 1..(i - 1) : body[k] # ".")

\* float(t) for t matching [+-]?\d+(?:\.\d+)?: the nearest float
FloatOfText(t) ==
    FloatOfUnsigned(t[1] = "-", IF t[1] \in {"+", "-"} THEN Tail(t) ELSE t)

\* str(b) for a magnitude b
RECURSIVE DecimalOfBig(_)
DecimalOfBig(b) ==
    LET qr == BigDivMod(b, 10)
    IN  IF qr.q = <<>> THEN <<DigitChar(qr.r)>>
        ELSE DecimalOfBig(qr.q) \o <<DigitChar(qr.r)>>

\* str(n) for a machine-sized n >= 0
DecimalOfNat(n) == DecimalOfBig(BigFromNat(n))


(***************************************************************************)
(* The functions of core.py                                                *)
(***************************************************************************)
\* a matcher's "no match" (None)
None == [matched |-> FALSE, val |-> PyInt(0)]

Matched(x) == [matched |-> TRUE, val |-> x]

\* _validate_input(v): the exception it raises, if any
_validate_input(v) ==
    IF v.type = "NoneType"
    THEN Raise("InvalidValueError", "Duration cannot be None")
    ELSE Return(NoneValue)

\* _parse_numeric without its test for NaN
ParseNumericUnchecked(v) ==
    IF ~IsNumeric(v)
    THEN Raise("InvalidValueError", "Invalid numeric duration")
    ELSE IntOf(v)

_parse_numeric(v) ==
    IF ~IsNumeric(v) \/ NotEqualToItself(v)
    THEN Raise("InvalidValueError", "Invalid numeric duration")
    ELSE IntOf(v)

\* the body of _extract_sign for the match m_sign
SignOf(m_sign) == IF m_sign.sign = "-" THEN -1 ELSE 1

SignAndRest(sign, raw) ==
    IF raw = <<>>
    THEN Raise("InvalidFormatError", "missing duration after sign")
    ELSE Return([raw |-> raw, sign |-> sign])

ExtractFrom(raw, m_sign) ==
    IF m_sign.matched
    THEN SignAndRest(SignOf(m_sign), Strip(m_sign.rest))
    ELSE Return([raw |-> raw, sign |-> 1])

\* _extract_sign(raw, original): the pair (raw, sign), or the exception
_extract_sign(raw) == ExtractFrom(raw, LeadingSignMatch(raw))

\* float(group or 0)
FloatOfGroup(g) == IF g = <<>> THEN FZero ELSE FloatOfText(g)

\* the sign of the match multiplied into the sign found before it
IsoSignProduct(m_iso, sign) ==
    IF m_iso.sign = <<"-">> THEN -sign ELSE sign

\* the sign of the ISO-8601 result: the sign of the match if it has one
IsoSign(m_iso, sign) ==
    IF m_iso.sign # <<>>
    THEN (IF m_iso.sign = <<"-">> THEN -1 ELSE 1)
    ELSE sign

\* total_seconds with the hours counted as minutes
IsoTotalSecondsHoursAsMinutes(m_iso) ==
    IntOfFloat(FAdd(FAdd(FAdd(FMulConst(FloatOfGroup(m_iso.d), SECONDS_PER_DAY),
                              FMulConst(FloatOfGroup(m_iso.h), SECONDS_PER_MINUTE)),
                         FMulConst(FloatOfGroup(m_iso.m), SECONDS_PER_MINUTE)),
                    FloatOfGroup(m_iso.s)))

\* total_seconds of _parse_iso8601
IsoTotalSeconds(m_iso) ==
    IntOfFloat(FAdd(FAdd(FAdd(FMulConst(FloatOfGroup(m_iso.d), SECONDS_PER_DAY),
                              FMulConst(FloatOfGroup(m_iso.h), SECONDS_PER_HOUR)),
                         FMulConst(FloatOfGroup(m_iso.m), SECONDS_PER_MINUTE)),
                    FloatOfGroup(m_iso.s)))

IsoResult(m_iso, sign) ==
    IF ~m_iso.matched THEN None
    ELSE Matched(IntTimesSign(IsoSign(m_iso, sign), IsoTotalSeconds(m_iso)))

_parse_iso8601(raw, sign) == IsoResult(IsoFullMatch(raw), sign)

\* the chain with the test for "m" before the test for "mo"
UnitMultiplierMinuteFirst(unit) ==
    IF StartsWith(unit, <<"y">>) THEN SECONDS_PER_YEAR
    ELSE IF StartsWith(unit, <<"m">>) THEN SECONDS_PER_MINUTE
    ELSE IF StartsWith(unit, <<"m", "o">>) THEN SECONDS_PER_MONTH
    ELSE IF StartsWith(unit, <<"w">>) THEN SECONDS_PER_WEEK
    ELSE IF StartsWith(unit, <<"d">>) THEN SECONDS_PER_DAY
    ELSE IF StartsWith(unit, <<"h">>) THEN SECONDS_PER_HOUR
    ELSE 1

\* the seconds per unit: the chain of startswith tests (1 for seconds)
UnitMultiplier(unit) ==
    IF StartsWith(unit, <<"y">>) THEN SECONDS_PER_YEAR
    ELSE IF StartsWith(unit, <<"m", "o">>) THEN SECONDS_PER_MONTH
    ELSE IF StartsWith(unit, <<"w">>) THEN SECONDS_PER_WEEK
    ELSE IF StartsWith(unit, <<"d">>) THEN SECONDS_PER_DAY
    ELSE IF StartsWith(unit, <<"h">>) THEN SECONDS_PER_HOUR
    ELSE IF StartsWith(unit, <<"m">>) THEN SECONDS_PER_MINUTE
    ELSE 1

\* val * SECONDS_PER_..., or val itself for seconds
UnitSeconds(val, unit) == FMulConst(val, UnitMultiplier(unit))

\* the loop of _parse_compound over matches[i..], entered with expected_pos
\* and total: the final expected_pos and total, or gap when a match does not
\* start where it is expected
RECURSIVE CompoundLoop(_, _, _, _, _)
CompoundStep(raw, matches, i, pos, total) ==
    IF matches[i].start # pos
    THEN [gap |-> TRUE, expected_pos |-> pos, total |-> total]
    ELSE CompoundLoop(raw, matches, i + 1, matches[i].end,
                      FAdd(total, UnitSeconds(FloatOfText(matches[i].value),
                                              Strip(Lower(matches[i].unit)))))

CompoundLoop(raw, matches, i, expected_pos, total) ==
    IF i > Len(matches)
    THEN [gap |-> FALSE, expected_pos |-> expected_pos, total |-> total]
    ELSE CompoundStep(raw, matches, i, RunEnd(raw, expected_pos, SpaceChars), total)

\* the end of _parse_compound without the test that the whole text was
\* consumed
CompoundEndUnchecked(raw, sign, loop) ==
    IF loop.gap THEN None
    ELSE Matched(IntTimesSign(sign, IntOfFloat(loop.total)))

\* the end of _parse_compound, after the loop
CompoundEnd(raw, sign, loop) ==
    IF loop.gap THEN None
    ELSE IF RunEnd(raw, loop.expected_pos, SpaceChars) # Len(raw) THEN None
    ELSE Matched(IntTimesSign(sign, IntOfFloat(loop.total)))

CompoundResult(raw, sign, matches) ==
    IF matches = <<>> THEN None
    ELSE CompoundEnd(raw, sign, CompoundLoop(raw, matches, 1, 0, FZero))

_parse_compound(raw, sign) ==
    CompoundResult(raw, sign, CompoundFindIter(Lower(raw), 0))

\* the two formats in turn: ISO 8601 first, compound if it gave None
FirstFormat(iso, compound) ==
    IF iso.matched THEN Return(iso.val)
    ELSE IF compound.matched THEN Return(compound.val)
    ELSE Raise("InvalidFormatError", "Invalid duration format")

TryFormats(raw, sign) ==
    FirstFormat(_parse_iso8601(raw, sign), _parse_compound(raw, sign))

AfterSign(signed) ==
    IF ~signed.ok THEN signed ELSE TryFormats(signed.val.raw, signed.val.sign)

\* parse_duration on a stripped text without the test for an empty one
ParseStrippedUnchecked(raw) == AfterSign(_extract_sign(raw))

\* parse_duration on a stripped text
ParseStripped(raw) ==
    IF raw = <<>>
    THEN Raise("InvalidValueError", "Duration string cannot be empty")
    ELSE AfterSign(_extract_sign(raw))

\* the text branch of parse_duration
ParseText(v) == ParseStripped(Strip(v.s))

parse_duration(v) ==
    IF ~_validate_input(v).ok THEN _validate_input(v)
    ELSE IF IsNumeric(v) THEN _parse_numeric(v)
    ELSE IF v.type # "str"
    THEN Raise("InvalidTypeError", "Duration must be str, int, or float")
    ELSE ParseText(v)

\* a part with the first letter of its unit only
PartFirstLetter(q, unit) == IF q = 0 THEN <<>> ELSE DecimalOfNat(q) \o <<unit[1]>>

\* a part that is written for a zero quotient too
PartAlways(q, unit) == DecimalOfNat(q) \o unit

\* f"{q}{unit}" if q else nothing
Part(q, unit) == IF q = 0 THEN <<>> ELSE DecimalOfNat(q) \o unit

\* the seconds written only when they are not zero
SecondsPartNonZero(s, parts) ==
    IF s # 0 THEN DecimalOfNat(s) \o <<"s">> ELSE <<>>

\* f"{s}s" if s or not parts
SecondsPart(s, parts) ==
    IF s # 0 \/ parts = <<>> THEN DecimalOfNat(s) \o <<"s">> ELSE <<>>

\* the sign written for zero too
SignStrNonPositive(seconds) ==
    IF seconds.val.neg \/ seconds.val.mag = <<>> THEN <<"-">> ELSE <<>>

\* "-" if seconds < 0 else ""
SignStr(seconds) == IF seconds.val.neg THEN <<"-">> ELSE <<>>

\* the failure of the type gate raised as a value error
NotAnIntegerAsValue(seconds) ==
    Raise("InvalidValueError", "Seconds must be an integer")

\* raise InvalidTypeError(f"Seconds must be an integer, got ...")
NotAnInteger(seconds) == Raise("InvalidTypeError", "Seconds must be an integer")

\* a division that hands the whole dividend on as its remainder
RemainderKept(n, unit) == n

\* the rem of divmod(n, unit)
Remainder(n, unit) == n % unit

format_duration(seconds) ==
    IF seconds.type # "int"
    THEN NotAnInteger(seconds)
    ELSE LET sign_str == SignStr(seconds)
             yr   == BigDivMod(seconds.val.mag, SECONDS_PER_YEAR)
             y    == yr.q
             mo   == yr.r \div SECONDS_PER_MONTH
             rem1 == Remainder(yr.r, SECONDS_PER_MONTH)
             w    == rem1 \div SECONDS_PER_WEEK
             rem2 == Remainder(rem1, SECONDS_PER_WEEK)
             d    == rem2 \div SECONDS_PER_DAY
             rem3 == Remainder(rem2, SECONDS_PER_DAY)
             h    == rem3 \div SECONDS_PER_HOUR
             rem4 == Remainder(rem3, SECONDS_PER_HOUR)
             m    == rem4 \div SECONDS_PER_MINUTE
             s    == Remainder(rem4, SECONDS_PER_MINUTE)
             parts == (IF y = <<>> THEN <<>> ELSE DecimalOfBig(y) \o <<"y">>)
                      \o Part(mo, <<"m", "o">>)
                      \o Part(w, <<"w">>)
                      \o Part(d, <<"d">>)
                      \o Part(h, <<"h">>)
                      \o Part(m, <<"m">>)
         IN  Return(StrValue(sign_str \o parts \o SecondsPart(s, parts)))


(***************************************************************************)
(* The callers.  A run picks one input v, calls parse_duration on it, and  *)
(* then goes on with a second call that depends on the first: formatting   *)
(* the parsed seconds and parsing the result again, or parsing the same    *)
(* text behind a sign.  format_duration may also be called on v itself.    *)
(***************************************************************************)
VARIABLES pc, v, out, fmt, v2, out2, frame

vars == <<pc, v, out, fmt, v2, out2, frame>>

NotCalled == [ok |-> FALSE, err |-> "", msg |-> "not called"]

NoValue == [type |-> "unset"]

\* the locals raw, sign and result of a call of parse_duration that is under
\* way, and the steps the call has taken so far, each with its outcome
NoFrame == [raw |-> <<>>, sign |-> 1, result |-> None, steps |-> <<>>]

\* bounds of the inputs
MaxSeconds == 40

MaxItems == 2

MaxFloatInt == 3

\* 2^MantissaBits, from which on not every integer is a float
FloatLimit == BigShl(<<1>>, MantissaBits)

\* integer inputs: a range around zero, the neighbours of every unit size
\* and of FloatLimit, and a value past the 32 bits of a machine word
IntInputs ==
    {PyInt(n) : n \in -MaxSeconds..MaxSeconds}
    \cup {MkInt(neg, BigFromNat(u + k)) :
            neg \in BOOLEAN, k \in {-1, 0, 1},
            u \in {SECONDS_PER_MINUTE, SECONDS_PER_HOUR, SECONDS_PER_DAY,
                   SECONDS_PER_WEEK, SECONDS_PER_MONTH, SECONDS_PER_YEAR,
                   13 * SECONDS_PER_MONTH, 999999}}
    \cup {MkInt(neg, BigAdd(BigSub(FloatLimit, <<2>>), BigFromNat(k))) :
            neg \in BOOLEAN, k \in 0..5}
    \cup {MkInt(neg, BigShl(<<1>>, 40)) : neg \in BOOLEAN}

\* finite float inputs: the floats nearest to i.f for a decimal digit f
FloatInputs ==
    {FloatOfRatio(neg, BigFromNat(10 * i + f), 10) :
        neg \in BOOLEAN, i \in 0..MaxFloatInt, f \in 0..9}

\* the pieces texts are put together from: tokens of the compound grammar,
\* pieces of broken tokens, an ISO-8601 duration, signs, nothing
Items ==
    { <<>>,
      <<"3", "0", "s">>, <<"1", "h">>,
      <<"0", ".", "7", "d">>, <<"1", " ", "M", "i", "n">>, <<"2", "m", "o">>,
      <<"3", "0">>, <<"h">>, <<"x">>,
      <<"P", "T", "3", "0", "S">>,
      <<"+">>, <<"-">> }

Separators == { <<>>, <<" ">>, <<"\t">>, <<"\n">> }

LeadingSeparators == { <<>>, <<" ">> }

\* the texts of at most n items, a separator before each item; an item and
\* a separator may be empty, and a text begins with a space or none
TextsAfter(t) ==
    {t \o sep \o i : sep \in (IF t = <<>> THEN LeadingSeparators ELSE Separators),
                      i \in Items}

RECURSIVE TextsOf(_)
TextsOf(n) ==
    IF n = 0 THEN {<<>>} ELSE UNION {TextsAfter(t) : t \in TextsOf(n - 1)}

TextInputs == TextsOf(MaxItems)

InitWith(inputs) ==
    /\ pc = "start"
    /\ v \in inputs
    /\ out = NotCalled
    /\ fmt = NotCalled
    /\ v2 = NoValue
    /\ out2 = NotCalled
    /\ frame = NoFrame

\* parsed = parse_duration(v)
Parse ==
    /\ pc = "start"
    /\ out' = parse_duration(v)
    /\ pc' = "parsed"
    /\ UNCHANGED <<v, fmt, v2, out2, frame>>

\* formatted = format_duration(parsed)
Format ==
    /\ pc = "parsed"
    /\ out.ok
    /\ fmt' = format_duration(IntValue(out.val))
    /\ pc' = "formatted"
    /\ UNCHANGED <<v, out, v2, out2, frame>>

\* reparsed = parse_duration(formatted)
Reparse ==
    /\ pc = "formatted"
    /\ fmt.ok
    /\ v2' = fmt.val
    /\ out2' = parse_duration(fmt.val)
    /\ pc' = "reparsed"
    /\ UNCHANGED <<v, out, fmt, frame>>

\* format_duration(v) on the input itself
FormatInput ==
    /\ pc = "start"
    /\ fmt' = format_duration(v)
    /\ pc' = "formatted_input"
    /\ UNCHANGED <<v, out, v2, out2, frame>>

BeginsWithSign(s) == s # <<>> /\ s[1] \in {"+", "-"}

\* parse_duration(sign + gap + v) for an accepted text v without a sign
ParseSigned(sign, gap) ==
    /\ pc = "parsed"
    /\ v.type = "str"
    /\ out.ok
    /\ ~BeginsWithSign(v.s)
    /\ v2' = StrValue(<<sign>> \o gap \o v.s)
    /\ out2' = parse_duration(v2')
    /\ pc' = "signed"
    /\ UNCHANGED <<v, out, fmt, frame>>

\* every kind of input, to both functions
KindInputs ==
    {NoneValue, SpecialFloat("nan"), SpecialFloat("inf"), SpecialFloat("-inf")}
    \cup {OtherValue(t) : t \in {"list", "dict", "tuple", "object"}}
    \cup {IntValue(x) : x \in IntInputs}
    \cup {FloatValue(f) : f \in FloatInputs}
    \cup {StrValue(t) : t \in TextsOf(1)}

Init == InitWith(KindInputs)

Next == Parse \/ FormatInput

Spec == Init /\ [][Next]_vars

\* integers through parse, format and parse again
InitRoundTrip == InitWith({IntValue(x) : x \in IntInputs})

NextRoundTrip == Parse \/ Format \/ Reparse

SpecRoundTrip == InitRoundTrip /\ [][NextRoundTrip]_vars

\* texts, and the accepted ones again behind a sign
InitText == InitWith({StrValue(t) : t \in TextInputs})

NextText ==
    \/ Parse
    \/ \E sign \in {"+", "-"}, gap \in {<<>>, <<" ">>} : ParseSigned(sign, gap)

SpecText == InitText /\ [][NextText]_vars

\* format_duration(b) for a second integer b, after format_duration(v)
FormatOther(b) ==
    /\ pc = "formatted_input"
    /\ v2' = IntValue(b)
    /\ out2' = format_duration(v2')
    /\ pc' = "formatted_pair"
    /\ UNCHANGED <<v, out, fmt, frame>>

\* integers formatted, alone and in pairs
InitFormat == InitWith({IntValue(x) : x \in IntInputs})

NextFormat == FormatInput \/ \E b \in IntInputs : FormatOther(b)

SpecFormat == InitFormat /\ [][NextFormat]_vars

(***************************************************************************)
(* What the documentation says of durations, stated without the code: the  *)
(* unit words and their seconds, the tokens of a compound text, the exact  *)
(* sum of their seconds.                                                   *)
(***************************************************************************)
WhiteSpace == {" ", "\t", "\n", "\r", "\f"}

IsBlank(t) == \A i \in 1..Len(t) : t[i] \in WhiteSpace

\* a unit word with or without its plural s
Plural(w) == {w, w \o <<"s">>}

\* the unit words and the seconds of each
UnitWords ==
    [year   |-> Plural(<<"y">>) \cup Plural(<<"y", "e", "a", "r">>),
     month  |-> Plural(<<"m", "o">>) \cup Plural(<<"m", "o", "n", "t", "h">>),
     week   |-> Plural(<<"w">>) \cup Plural(<<"w", "e", "e", "k">>),
     day    |-> Plural(<<"d">>) \cup Plural(<<"d", "a", "y">>),
     hour   |-> Plural(<<"h">>) \cup Plural(<<"h", "o", "u", "r">>),
     minute |-> {<<"m">>} \cup Plural(<<"m", "i", "n">>)
                \cup Plural(<<"m", "i", "n", "u", "t", "e">>),
     second |-> {<<"s">>} \cup Plural(<<"s", "e", "c">>)
                \cup Plural(<<"s", "e", "c", "o", "n", "d">>)]

UnitTable ==
    [year |-> 31536000, month |-> 2592000, week |-> 604800, day |-> 86400,
     hour |-> 3600, minute |-> 60, second |-> 1]

IsUnitWord(w) == \E u \in DOMAIN UnitWords : w \in UnitWords[u]

WordSeconds(w) == UnitTable[CHOOSE u \in DOMAIN UnitWords : w \in UnitWords[u]]

\* a non-negative decimal: digits, or digits, a point and digits
IsDecimalText(w) ==
    /\ w # <<>>
    /\ \A i \in 1..Len(w) : w[i] \in {"0", "1", "2", "3", "4", "5", "6", "7", "8", "9", "."}
    /\ Cardinality({i \in 1..Len(w) : w[i] = "."}) <= 1
    /\ w[1] # "." /\ w[Len(w)] # "."

\* offsets i < a <= b < j with a decimal in t[i:a], blanks in t[a:b] and a
\* unit word in t[b:j], whatever the case of its letters
IsTokenCut(t, i, a, b, j) ==
    /\ IsDecimalText(SubSeq(t, i + 1, a))
    /\ IsBlank(SubSeq(t, a + 1, b))
    /\ IsUnitWord([k \in 1..(j - b) |-> LowerChar(t[b + k])])

IsToken(t, i, j) ==
    \E a \in (i + 1)..(j - 1), b \in (i + 1)..(j - 1) : a <= b /\ IsTokenCut(t, i, a, b, j)

\* the first offset from i on that holds no white space
SkipBlank(t, i) ==
    CHOOSE k \in i..Len(t) :
        /\ IsBlank(SubSeq(t, i + 1, k))
        /\ k = Len(t) \/ t[k + 1] \notin WhiteSpace

\* t from offset i on is tokens with nothing but white space between and
\* after them
RECURSIVE CoveredFrom(_, _)
CoveredFrom(t, i) ==
    \/ SkipBlank(t, i) = Len(t)
    \/ \E j \in (SkipBlank(t, i) + 1)..Len(t) :
          IsToken(t, SkipBlank(t, i), j) /\ CoveredFrom(t, j)

\* t is one token or more and white space, nothing else
IsCompoundText(t) == ~IsBlank(t) /\ CoveredFrom(t, 0)

\* the digits of a decimal without its point, and its places after the point
DigitsOf(w) == SelectSeq(w, LAMBDA c : c # ".")

PlacesOf(w) ==
    IF \E i \in 1..Len(w) : w[i] = "."
    THEN Len(w) - (CHOOSE i \in 1..Len(w) : w[i] = ".")
    ELSE 0

\* a * 10^n and a \div 10^n
RECURSIVE TimesTenTo(_, _)
TimesTenTo(a, n) == IF n = 0 THEN a ELSE TimesTenTo(BigMulSmall(a, 10), n - 1)

RECURSIVE OverTenTo(_, _)
OverTenTo(a, n) == IF n = 0 THEN a ELSE OverTenTo(BigDivMod(a, 10).q, n - 1)

\* magnitude x seconds of the token t[i:j], in units of 10^-places second
TokenSeconds(t, i, j, places) ==
    LET cut == CHOOSE c \in ((i + 1)..(j - 1)) \X ((i + 1)..(j - 1)) :
                   c[1] <= c[2] /\ IsTokenCut(t, i, c[1], c[2], j)
        w   == SubSeq(t, i + 1, cut[1])
        u   == [k \in 1..(j - cut[2]) |-> LowerChar(t[cut[2] + k])]
    IN  BigMulSmall(TimesTenTo(DigitsToBig(DigitsOf(w), <<>>), places - PlacesOf(w)),
                    WordSeconds(u))

\* the exact sum of the tokens of a compound text from offset i on, in units
\* of 10^-places second
RECURSIVE ExactSumFrom(_, _, _)
ExactSumFrom(t, i, places) ==
    IF SkipBlank(t, i) = Len(t) THEN <<>>
    ELSE LET k == SkipBlank(t, i)
             j == CHOOSE e \in (k + 1)..Len(t) : IsToken(t, k, e) /\ CoveredFrom(t, e)
         IN  BigAdd(TokenSeconds(t, k, j, places), ExactSumFrom(t, j, places))

\* the whole seconds of the exact sum of the tokens of a compound text (no
\* decimal of the text has Len(t) places)
ExactSeconds(t) == OverTenTo(ExactSumFrom(t, 0, Len(t)), Len(t))

(***************************************************************************)
(* The claims                                                              *)
(***************************************************************************)
\* C1: round-trip law: for every integer n, zero, positive or negative,
\* parse_duration(format_duration(n)) returns n.
C1_RoundTrip ==
    pc = "reparsed" => out2.ok /\ out2.val = v.val

\* C2: a compound text of tokens <decimal><unit word>, in any order and with
\* units repeated, parses to the sum over its tokens of magnitude x seconds
\* of the unit (here even read with the fraction of a second of the sum
\* dropped, as the integer result needs).
C2_SumOfTokens ==
    (pc = "parsed" /\ v.type = "str" /\ IsCompoundText(v.s))
        => out.ok /\ out.val = MkInt(FALSE, ExactSeconds(v.s))

\* C3: sign symmetry: for an accepted text s that begins with no sign,
\* parse_duration("-" + s) = -parse_duration(s) and parse_duration("+" + s)
\* = parse_duration(s), also with white space between the sign and s.
C3_SignSymmetry ==
    pc = "signed"
        => out2.ok /\ out2.val = (IF v2.s[1] = "-" THEN IntNeg(out.val) ELSE out.val)

\* C5: every failure of parse_duration and of format_duration is an instance
\* of the base class DurationError.
C5_OneBaseCategory ==
    /\ (pc = "parsed" /\ ~out.ok) => IsSubclass(out.err, "DurationError")
    /\ (pc = "formatted_input" /\ ~fmt.ok) => IsSubclass(fmt.err, "DurationError")

\* t without the white space around it
TrimEnd(t) ==
    CHOOSE k \in 0..Len(t) :
        /\ IsBlank(SubSeq(t, k + 1, Len(t)))
        /\ k = 0 \/ t[k] \notin WhiteSpace

Trimmed(t) == IF IsBlank(t) THEN <<>> ELSE SubSeq(t, SkipBlank(t, 0) + 1, TrimEnd(t))

IsSignChar(c) == c \in {"+", "-"}

\* w without a sign it begins with and the white space after that sign
Unsigned(w) ==
    IF w # <<>> /\ IsSignChar(w[1]) THEN SubSeq(w, SkipBlank(w, 1) + 1, Len(w)) ELSE w

\* the text a duration is to be read from: no white space around, no sign
BodyOf(t) == Unsigned(Trimmed(t))

\* a text that is for the ISO-8601 grammar: P after an optional sign
IsIsoShaped(w) ==
    \/ w # <<>> /\ w[1] \in {"P", "p"}
    \/ Len(w) >= 2 /\ IsSignChar(w[1]) /\ w[2] \in {"P", "p"}

\* C4: compound matching is exhaustive: a text that is not for the ISO-8601
\* grammar is accepted only if it is tokens and white space, nothing else,
\* after its sign; with anything left unmatched the call fails with
\* InvalidFormatError and returns no value.
C4_ExhaustiveMatch ==
    (pc = "parsed" /\ v.type = "str" /\ ~IsIsoShaped(BodyOf(v.s)))
        => /\ out.ok => IsCompoundText(BodyOf(v.s))
           /\ (~IsBlank(v.s) /\ ~IsCompoundText(BodyOf(v.s)))
                  => ~out.ok /\ out.err = "InvalidFormatError"

\* a text that begins with a token and has more that is no token is refused
C4_Witness ==
    /\ pc = "parsed" /\ v.type = "str"
    /\ \E j \in 1..Len(v.s) : IsToken(v.s, 0, j)
    /\ ~IsCompoundText(v.s)
    /\ ~out.ok /\ out.err = "InvalidFormatError"

\* C6: parse_duration returns no value for None (InvalidValueError), for a
\* float NaN (InvalidValueError), for a float infinity of either sign
\* (OverflowError) and for a value that is no int, float or str
\* (InvalidTypeError).
C6_NonTextKinds ==
    pc = "parsed"
        => /\ v.type = "NoneType"
                => ~out.ok /\ IsSubclass(out.err, "InvalidValueError")
           /\ (v.type = "float" /\ v.special = "nan")
                => ~out.ok /\ IsSubclass(out.err, "InvalidValueError")
           /\ (v.type = "float" /\ v.special \in {"inf", "-inf"})
                => ~out.ok /\ IsSubclass(out.err, "OverflowError")
           /\ v.type \notin {"NoneType", "int", "float", "str"}
                => ~out.ok /\ IsSubclass(out.err, "InvalidTypeError")

\* parse_duration was called on a NaN and failed
C6_Witness ==
    pc = "parsed" /\ v = SpecialFloat("nan") /\ ~out.ok

\* a text of one sign and white space
IsLoneSign(t) == Len(Trimmed(t)) = 1 /\ IsSignChar(Trimmed(t)[1])

\* C7: for a text, parse_duration fails with InvalidValueError when the text
\* is empty or white space only, with InvalidFormatError "missing duration
\* after sign" when it is a sign and white space, and with InvalidFormatError
\* in every other failure; the test for emptiness comes before the sign.
C7_TextFailures ==
    (pc = "parsed" /\ v.type = "str")
        => /\ IsBlank(v.s)
                => out = Raise("InvalidValueError", "Duration string cannot be empty")
           /\ IsLoneSign(v.s)
                => out = Raise("InvalidFormatError", "missing duration after sign")
           /\ (~out.ok /\ ~IsBlank(v.s)) => out.err = "InvalidFormatError"

\* parse_duration was called on a sign followed by white space and failed
C7_Witness ==
    /\ pc = "parsed" /\ v.type = "str"
    /\ IsLoneSign(v.s) /\ Len(v.s) > 1
    /\ ~out.ok /\ out.err = "InvalidFormatError"

\* whether the magnitude k is the whole part of |f|: k <= |f| < k + 1
IsWholePartOf(k, f) ==
    IF f.e >= 0 THEN k = BigShl(f.m, f.e)
    ELSE /\ BigCmp(BigShl(k, -f.e), f.m) <= 0
         /\ BigCmp(f.m, BigShl(BigAdd(k, <<1>>), -f.e)) < 0

\* C8: parse_duration returns an int input unchanged and a finite float
\* input truncated toward zero: the whole part of its magnitude with its
\* sign, neither rounded to nearest nor floored.
C8_NumericPath ==
    pc = "parsed"
        => /\ v.type = "int" => out.ok /\ out.val = v.val
           /\ (v.type = "float" /\ v.special = "finite")
                => /\ out.ok
                   /\ IsWholePartOf(out.val.mag, v.val)
                   /\ out.val.neg = (v.val.neg /\ out.val.mag # <<>>)

\* parse_duration was called on -1.9 and returned -1
C8_Witness ==
    /\ pc = "parsed"
    /\ v = FloatValue(FloatOfRatio(TRUE, BigFromNat(19), 10))
    /\ out.ok /\ out.val = PyInt(-1)

\* the units of the output of format_duration, largest first, and their
\* seconds
OutputUnits == << <<"y">>, <<"m", "o">>, <<"w">>, <<"d">>, <<"h">>, <<"m">>, <<"s">> >>

OutputUnitSeconds == <<31536000, 2592000, 604800, 86400, 3600, 60, 1>>

DecimalDigits == {"0", "1", "2", "3", "4", "5", "6", "7", "8", "9"}

UnitLetters == {"y", "m", "o", "w", "d", "h", "s"}

IsDigitChar(c) == c \in DecimalDigits

IsUnitLetter(c) == c \in UnitLetters

\* the length of the longest prefix of s with all characters in a class
PrefixRun(s, class) ==
    CHOOSE k \in 0..Len(s) :
        /\ \A i \in 1..k : s[i] \in class
        /\ k = Len(s) \/ s[k + 1] \notin class

\* s cut into tokens, each a run of digits q and a run of unit letters u; a
\* text that is no such tokens leaves a last token with no digits or no
\* letters
RECURSIVE OutputTokens(_)
OutputTokensAfter(s, a, b) ==
    IF a + b = 0 THEN << [q |-> <<>>, u |-> s] >>
    ELSE << [q |-> SubSeq(s, 1, a), u |-> SubSeq(s, a + 1, a + b)] >>
         \o OutputTokens(SubSeq(s, a + b + 1, Len(s)))

OutputTokensFrom(s, a) ==
    OutputTokensAfter(s, a, PrefixRun(SubSeq(s, a + 1, Len(s)), UnitLetters))

OutputTokens(s) ==
    IF s = <<>> THEN <<>> ELSE OutputTokensFrom(s, PrefixRun(s, DecimalDigits))

\* the output without its leading "-"
OutputBody(s) == IF s # <<>> /\ s[1] = "-" THEN Tail(s) ELSE s

UnitIndex(u) == CHOOSE i \in 1..Len(OutputUnits) : OutputUnits[i] = u

\* every token is a decimal number without leading zeros and a unit
IsWellFormed(toks) ==
    \A i \in 1..Len(toks) :
        /\ toks[i].q # <<>>
        /\ toks[i].q[1] # "0" \/ Len(toks[i].q) = 1
        /\ \E k \in 1..Len(OutputUnits) : OutputUnits[k] = toks[i].u

IsDescending(toks) ==
    \A i \in 1..Len(toks), j \in 1..Len(toks) :
        i < j => UnitIndex(toks[i].u) < UnitIndex(toks[j].u)

TokenValue(tok) ==
    BigMulSmall(DigitsToBig(tok.q, <<>>), OutputUnitSeconds[UnitIndex(tok.u)])

\* the sum of quotient x unit seconds over the tokens from the i-th on
RECURSIVE SumOfTokensFrom(_, _)
SumOfTokensFrom(toks, i) ==
    IF i > Len(toks) THEN <<>>
    ELSE BigAdd(TokenValue(toks[i]), SumOfTokensFrom(toks, i + 1))

\* the quotients are those of successive floor division: what the tokens
\* after one of a larger unit add up to is less than that unit
IsFloorDivision(toks) ==
    \A k \in 1..(Len(OutputUnits) - 1) :
        BigCmp(SumOfTokensFrom(SelectSeq(toks, LAMBDA t : UnitIndex(t.u) > k), 1),
               BigFromNat(OutputUnitSeconds[k])) < 0

IsDecomposition(toks, mag) ==
    /\ IsWellFormed(toks)
    /\ IsDescending(toks)
    /\ SumOfTokensFrom(toks, 1) = mag
    /\ IsFloorDivision(toks)

HasZeroQuotient(toks) == \E i \in 1..Len(toks) : DigitsToBig(toks[i].q, <<>>) = <<>>

\* C9 as it is stated: for every integer n the output is one token for each
\* unit whose quotient is not zero, largest unit first, no separators, the
\* quotients from successive floor division of |n|, summing to |n|.
C9_AsStated ==
    pc = "formatted"
        => /\ fmt.ok
           /\ IsDecomposition(OutputTokens(OutputBody(fmt.val.s)), out.val.mag)
           /\ ~HasZeroQuotient(OutputTokens(OutputBody(fmt.val.s)))

\* C9 amended: as stated for every integer n other than 0; for n = 0, where
\* no quotient is non-zero, the output is the one token 0s.
C9_Decomposition ==
    pc = "formatted"
        => /\ fmt.ok
           /\ IsDecomposition(OutputTokens(OutputBody(fmt.val.s)), out.val.mag)
           /\ HasZeroQuotient(OutputTokens(OutputBody(fmt.val.s)))
                  <=> out.val.mag = <<>>
           /\ out.val.mag = <<>> => fmt.val.s = <<"0", "s">>

\* format_duration was called on a negative integer and wrote three tokens
\* or more
C9_Witness ==
    /\ pc = "formatted" /\ fmt.ok
    /\ out.val.neg
    /\ Len(OutputTokens(OutputBody(fmt.val.s))) >= 3

\* C10: for every integer n the output of format_duration is not empty, has
\* no white space, is an optional leading "-", digits and the unit letters
\* y, m, o, w, d, h, s, and has at least one unit token; format_duration(0)
\* is "0s", and no other output has a token of magnitude 0.
C10_OutputShape ==
    pc = "formatted"
        => /\ fmt.ok
           /\ fmt.val.s # <<>>
           /\ \A i \in 1..Len(fmt.val.s) :
                 /\ fmt.val.s[i] \notin WhiteSpace
                 /\ \/ IsDigitChar(fmt.val.s[i])
                    \/ IsUnitLetter(fmt.val.s[i])
                    \/ i = 1 /\ fmt.val.s[i] = "-"
           /\ OutputTokens(OutputBody(fmt.val.s)) # <<>>
           /\ IsWellFormed(OutputTokens(OutputBody(fmt.val.s)))
           /\ out.val.mag = <<>> => fmt.val.s = <<"0", "s">>
           /\ HasZeroQuotient(OutputTokens(OutputBody(fmt.val.s)))
                  => out.val.mag = <<>>

\* format_duration was called on 0 and wrote 0s
C10_Witness ==
    pc = "formatted" /\ out.ok /\ out.val = PyInt(0) /\ fmt = Return(StrValue(<<"0", "s">>))

\* C11: format_duration(n) starts with "-" if and only if n < 0; for n > 0,
\* format_duration(-n) is "-" followed by format_duration(n); the output
\* for zero carries no sign.
C11_SignPrefix ==
    /\ pc = "formatted_input"
          => /\ fmt.ok
             /\ (fmt.val.s # <<>> /\ fmt.val.s[1] = "-") <=> v.val.neg
             /\ v.val = PyInt(0) => "-" \notin {fmt.val.s[i] : i \in 1..Len(fmt.val.s)}
    /\ (pc = "formatted_pair" /\ ~v.val.neg /\ v.val # PyInt(0) /\ v2.val = IntNeg(v.val))
          => out2.ok /\ out2.val.s = <<"-">> \o fmt.val.s

\* format_duration was called on an n > 0 with a year in it and on -n
C11_Witness ==
    /\ pc = "formatted_pair"
    /\ ~v.val.neg /\ Len(v.val.mag) >= 2 /\ v2.val = IntNeg(v.val)
    /\ out2.ok /\ out2.val.s[1] = "-"

\* C12: format_duration is a strict type gate: it fails with
\* InvalidTypeError (a TypeError), and returns nothing, for every input that
\* is no int: a str, None, a list, a dict, and a float even of an integral
\* value.
C12_TypeGate ==
    (pc = "formatted_input" /\ v.type # "int")
        => /\ ~fmt.ok
           /\ IsSubclass(fmt.err, "InvalidTypeError")
           /\ IsSubclass(fmt.err, "TypeError")

\* format_duration was called on the float 3.0 and failed
C12_Witness ==
    /\ pc = "formatted_input"
    /\ v = FloatValue(FloatOfRatio(FALSE, BigFromNat(30), 10))
    /\ IntOfFloat(v.val) = PyInt(3)
    /\ ~fmt.ok

\* C18: the canonical string is unique per value: for all integers a and b,
\* format_duration(a) = format_duration(b) if and only if a = b.
C18_UniqueString ==
    pc = "formatted_pair"
        => fmt.ok /\ out2.ok /\ ((fmt.val.s = out2.val.s) <=> (v.val = v2.val))

\* two different integers of the same magnitude were formatted
C18_Witness ==
    /\ pc = "formatted_pair"
    /\ v.val # v2.val /\ v.val.mag = v2.val.mag
    /\ fmt.val.s # out2.val.s

(***************************************************************************)
(* ISO-8601 durations: the texts tried, and what the documentation says of *)
(* them, stated without the code.                                          *)
(***************************************************************************)
\* the largest whole number of days tried
MaxDays == 1

\* the parts ISO-8601 texts are put together from: leading signs (one, or an
\* outer and an inner one), and the components in the order of the grammar
SignParts == { <<>>, <<"-">>, <<"+">>, <<"-", "-">>, <<"-", "+">>, <<"+", "-">> }

YearParts == { <<>>, <<"1", "Y">>, <<"2", "Y">> }

MonthParts == { <<>>, <<"1", "M">>, <<"3", "M">> }

DayParts ==
    { <<>>, <<"0", ".", "7", "D">>, <<"4", "D">> }
    \cup {DecimalOfNat(n) \o <<"D">> : n \in 1..MaxDays}

HourParts == { <<>>, <<"2", "H">>, <<"-", "1", "H">> }

MinuteParts == { <<>>, <<"1", "M">>, <<"-", "1", ".", "5", "M">> }

SecondParts == { <<>>, <<"5", "S">>, <<"3", "0", "S">>, <<"-", "9", "0", "S">> }

TimeParts ==
    {<<>>} \cup {<<"T">> \o h \o m \o sec :
                    h \in HourParts, m \in MinuteParts, sec \in SecondParts}

DateParts == {y \o mo \o d : y \in YearParts, mo \in MonthParts, d \in DayParts}

\* bodies in lower case, bodies with nothing after P or T, and bodies that
\* break the grammar: components out of order or twice, numbers of the wrong
\* form, other designators, white space
OtherBodies ==
    { <<"P", "1", "D", "2", "Y">>,
      <<"P", "1", ".", "5", "Y">>,
      <<"P", "-", "1", "D">>,
      <<"P", "+", "1", "D">>,
      <<"P", "1">>,
      <<"P", "T", "5", "S", "2", "H">>,
      <<"P", "T", "1", ".", "S">>,
      <<"P", "1", "H">>,
      <<"P", "T", "1", "D">>,
      <<"P", "T", "-", "-", "1", "H">>,
      <<"P", "1", "D", "T">>,
      <<"P", "T">>,
      <<"P">>,
      <<"p", "t", "3", "0", "s">>,
      <<"p", "1", "d", "t", "2", "h">>,
      <<"P", "1", "M", "1", "M">>,
      <<"P", "T", "1", "H", "1", "H">>,
      <<"P", " ", "1", "D">>,
      <<"P", "1", "D", " ", "T", "1", "H">>,
      <<"P", "T", "T", "1", "H">>,
      <<"P", "T", "1", "H", "3", "0">>,
      <<"P", "1", "W">>,
      <<"P", "T", ".", "5", "S">>,
      <<"P", "1", "D", "2", "H">>,
      <<"P", "T", "3", "0", "M", "1", "H">>,
      <<"P", "T", " ", "1", "H">>,
      <<"P", "T", "1", "X">>,
      <<"P", "T", "X", "Y", "Z">>,
      <<"1", "P", "T", "3", "0", "S">>,
      <<"P", "1", ".", "5", "M">>,
      <<"P", "T", "1", "H", "1", "W">> }

IsoBodies == {<<"P">> \o d \o t : d \in DateParts, t \in TimeParts} \cup OtherBodies

IsoInputs == {sg \o b : sg \in SignParts, b \in IsoBodies}

\* parse_duration(v without its first sign) for a text v of two leading signs
ParseInner ==
    /\ pc = "parsed"
    /\ v.type = "str" /\ Len(v.s) >= 2 /\ v.s[1] \in {"+", "-"} /\ v.s[2] \in {"+", "-"}
    /\ v2' = StrValue(Tail(v.s))
    /\ out2' = parse_duration(v2')
    /\ pc' = "inner"
    /\ UNCHANGED <<v, out, fmt, frame>>

\* parse_duration(v without the year and month components it begins with)
ParseDateless(head, ym) ==
    /\ pc = "parsed"
    /\ v.type = "str" /\ ym # <<>> /\ StartsWith(v.s, head \o ym)
    /\ v2' = StrValue(head \o SubSeq(v.s, Len(head) + Len(ym) + 1, Len(v.s)))
    /\ out2' = parse_duration(v2')
    /\ pc' = "dateless"
    /\ UNCHANGED <<v, out, fmt, frame>>

\* the characters put before or after an accepted text
ExtensionChars == {"X", "1", "H", "-"}

\* parse_duration(v with c before it or after it) for an accepted ISO-8601
\* text v that begins with P
ParseExtended(c, before) ==
    /\ pc = "parsed"
    /\ v.type = "str" /\ LitAt(v.s, 0, <<"p">>)
    /\ out.ok
    /\ v2' = StrValue(IF before THEN <<c>> \o v.s ELSE v.s \o <<c>>)
    /\ out2' = parse_duration(v2')
    /\ pc' = "extended"
    /\ UNCHANGED <<v, out, fmt, frame>>

InitIso == InitWith({StrValue(t) : t \in IsoInputs})

NextIso ==
    \/ Parse
    \/ ParseInner
    \/ \E sg \in SignParts, y \in YearParts, mo \in MonthParts :
          ParseDateless(sg \o <<"P">>, y \o mo)
    \/ \E c \in ExtensionChars, before \in BOOLEAN : ParseExtended(c, before)

SpecIso == InitIso /\ [][NextIso]_vars

\* the characters numbers are written with
NumberChars == DecimalDigits \cup {".", "+", "-"}

\* s cut into components, each a number and the designator letter after it
\* (in lower case); what is left without a letter is a last component with
\* no letter
RECURSIVE ComponentsOf(_)
ComponentsOf(s) ==
    IF s = <<>> THEN <<>>
    ELSE LET k == PrefixRun(s, NumberChars)
         IN  IF k = Len(s) THEN <<[num |-> s, letter |-> ""]>>
             ELSE <<[num |-> SubSeq(s, 1, k), letter |-> LowerChar(s[k + 1])]>>
                      \o ComponentsOf(SubSeq(s, k + 2, Len(s)))

\* an ISO-8601 text taken apart: whether the sign that counts is a minus
\* (the sign next to P if there is one, else the sign before it), the
\* components before T and the components after T
IsoParts(t) ==
    LET w     == BodyOf(t)
        inner == w # <<>> /\ IsSignChar(w[1])
        rest  == SubSeq(w, IF inner THEN 3 ELSE 2, Len(w))
        ts    == {i \in 1..Len(rest) : rest[i] \in {"T", "t"}}
        cut   == IF ts = {} THEN Len(rest) + 1 ELSE CHOOSE i \in ts : \A j \in ts : i <= j
    IN  [minus |-> IF inner THEN w[1] = "-" ELSE Trimmed(t)[1] = "-",
         date  |-> ComponentsOf(SubSeq(rest, 1, cut - 1)),
         time  |-> ComponentsOf(SubSeq(rest, cut + 1, Len(rest)))]

\* the designators of cs are of order, each at most once, in its order
IsInOrder(cs, order) ==
    /\ \A i \in 1..Len(cs) : \E k \in 1..Len(order) : order[k] = cs[i].letter
    /\ \A i, j \in 1..Len(cs) :
          i < j => \E k, l \in 1..Len(order) :
                      k < l /\ order[k] = cs[i].letter /\ order[l] = cs[j].letter

IsWholeNumber(w) == w # <<>> /\ \A i \in 1..Len(w) : w[i] \in DecimalDigits

IsSignedDecimal(w) ==
    IsDecimalText(IF w # <<>> /\ IsSignChar(w[1]) THEN Tail(w) ELSE w)

\* a text of the ISO-8601 grammar: whole years and months and decimal days,
\* then after T decimal hours, minutes and seconds, each with its own sign or
\* none; every component may be missing
IsIsoText(t) ==
    LET p == IsoParts(t)
    IN  /\ IsInOrder(p.date, <<"y", "m", "d">>)
        /\ \A i \in 1..Len(p.date) :
              IF p.date[i].letter = "d" THEN IsDecimalText(p.date[i].num)
              ELSE IsWholeNumber(p.date[i].num)
        /\ IsInOrder(p.time, <<"h", "m", "s">>)
        /\ \A i \in 1..Len(p.time) : IsSignedDecimal(p.time[i].num)

\* the number of the component of a designator, <<>> if there is none
NumberOf(cs, letter) ==
    IF \E i \in 1..Len(cs) : cs[i].letter = letter
    THEN cs[CHOOSE i \in 1..Len(cs) : cs[i].letter = letter].num
    ELSE <<>>

\* the float a number is read as, zero for a missing one
FloatOrZero(w) == IF w = <<>> THEN FZero ELSE FloatOfText(w)

\* days x 86400 + hours x 3600 + minutes x 60 + seconds, each product and
\* each sum, from the left, rounded to a float
IsoFloatSum(t) ==
    LET p == IsoParts(t)
    IN  FAdd(FAdd(FAdd(FMulConst(FloatOrZero(NumberOf(p.date, "d")), 86400),
                       FMulConst(FloatOrZero(NumberOf(p.time, "h")), 3600)),
                  FMulConst(FloatOrZero(NumberOf(p.time, "m")), 60)),
             FloatOrZero(NumberOf(p.time, "s")))

\* |number| x seconds in units of 10^-places second
Contribution(w, seconds, places) ==
    LET a == IF w # <<>> /\ IsSignChar(w[1]) THEN Tail(w) ELSE w
    IN  BigMulSmall(TimesTenTo(DigitsToBig(DigitsOf(a), <<>>), places - PlacesOf(a)),
                    seconds)

\* the same sum in exact arithmetic, truncated toward zero: its sign and the
\* whole seconds of its magnitude (no decimal of the text has Len(t) places)
IsoExactSum(t) ==
    LET p     == IsoParts(t)
        terms == << <<NumberOf(p.date, "d"), 86400>>, <<NumberOf(p.time, "h"), 3600>>,
                    <<NumberOf(p.time, "m"), 60>>, <<NumberOf(p.time, "s"), 1>> >>
        term(i, minus) ==
            IF (terms[i][1] # <<>> /\ terms[i][1][1] = "-") = minus
            THEN Contribution(terms[i][1], terms[i][2], Len(t))
            ELSE <<>>
        sum(minus) ==
            BigAdd(BigAdd(term(1, minus), term(2, minus)),
                   BigAdd(term(3, minus), term(4, minus)))
        up    == sum(FALSE)
        down  == sum(TRUE)
    IN  IF BigCmp(up, down) >= 0
        THEN [neg |-> FALSE, mag |-> OverTenTo(BigSub(up, down), Len(t))]
        ELSE [neg |-> TRUE, mag |-> OverTenTo(BigSub(down, up), Len(t))]

\* C13: of two leading signs before an ISO-8601 body the inner one replaces
\* the outer one, they are not multiplied: the result is that of the text
\* without its outer sign, so '--PT30S' is -30, '-+PT30S' is 30 and
\* '+-PT30S' is -30.
C13_InnerSignReplaces ==
    /\ pc = "inner" => out = out2 /\ (IsIsoText(v.s) => out.ok)
    /\ (pc = "parsed" /\ v = StrValue(<<"-", "-", "P", "T", "3", "0", "S">>))
          => out = Return(PyInt(-30))
    /\ (pc = "parsed" /\ v = StrValue(<<"-", "+", "P", "T", "3", "0", "S">>))
          => out = Return(PyInt(30))
    /\ (pc = "parsed" /\ v = StrValue(<<"+", "-", "P", "T", "3", "0", "S">>))
          => out = Return(PyInt(-30))

\* two minus signs before a body of a positive total gave a negative result
C13_Witness ==
    /\ pc = "inner"
    /\ v.s[1] = "-" /\ v.s[2] = "-"
    /\ out.ok /\ out.val.neg /\ out2 = out

\* parse_duration has returned for a text that is for the ISO-8601 grammar
IsoParsed == pc = "parsed" /\ v.type = "str" /\ IsIsoShaped(BodyOf(v.s))

\* C14 as stated: a text of the ISO-8601 grammar is accepted, and the result
\* is the sign that counts times the whole seconds, truncated toward zero,
\* of days x 86400 + hours x 3600 + minutes x 60 + seconds.
C14_AsStated ==
    (IsoParsed /\ IsIsoText(v.s))
        => /\ out.ok
           /\ out.val = MkInt(IsoParts(v.s).minus # IsoExactSum(v.s).neg,
                              IsoExactSum(v.s).mag)

\* C14: a text of the ISO-8601 grammar is accepted, no other text that
\* begins like one is, and the result is the sign that counts times the
\* whole seconds, truncated toward zero, of days x 86400 + hours x 3600 +
\* minutes x 60 + seconds computed in floating point: each product and each
\* sum, from the left, rounded to the nearest float. The hour, minute and
\* second components carry their own signs into the sum.
C14_FloatSum ==
    IsoParsed
        => /\ out.ok <=> IsIsoText(v.s)
           /\ out.ok
                 => /\ IsWholePartOf(out.val.mag, IsoFloatSum(v.s))
                    /\ out.val.neg = (out.val.mag # <<>>
                                      /\ IsoParts(v.s).minus # IsoFloatSum(v.s).neg)

\* a text with a fractional day component was accepted, and the result is
\* not the whole seconds of the exact sum
C14_Witness ==
    /\ IsoParsed /\ IsIsoText(v.s)
    /\ NumberOf(IsoParts(v.s).date, "d") = <<"0", ".", "7">>
    /\ NumberOf(IsoParts(v.s).time, "s") # <<>>
    /\ out.ok /\ out.val.mag # IsoExactSum(v.s).mag

\* C15: the year and month components of an ISO-8601 text are accepted and
\* add nothing: the result is that of the text without them; 'P1Y' and 'P1M'
\* are 0, 'P2Y3M4DT5S' is 345605, and the M after T is minutes: 'PT1M' is 60.
C15_YearsAndMonths ==
    /\ (pc = "dateless" /\ IsIsoText(v.s)) => out.ok /\ out = out2
    /\ (pc = "parsed" /\ v.type = "str"
          /\ v.s \in {<<"P", "1", "Y">>, <<"P", "1", "M">>})
          => out = Return(PyInt(0))
    /\ (pc = "parsed"
          /\ v = StrValue(<<"P", "2", "Y", "3", "M", "4", "D", "T", "5", "S">>))
          => out = Return(PyInt(345605))
    /\ (pc = "parsed" /\ v = StrValue(<<"P", "T", "1", "M">>))
          => out = Return(PyInt(60))

\* a text with years, months and more was parsed to a non-zero result, the
\* result of the text without its years and months
C15_Witness ==
    /\ pc = "dateless"
    /\ NumberOf(IsoParts(v.s).date, "y") # <<>>
    /\ NumberOf(IsoParts(v.s).date, "m") # <<>>
    /\ NumberOf(IsoParts(v2.s).date, "y") = <<>>
    /\ NumberOf(IsoParts(v2.s).date, "m") = <<>>
    /\ out.ok /\ out.val # PyInt(0) /\ out2 = out

(***************************************************************************)
(* parse_duration on a text, step by step                                  *)
(***************************************************************************)
Step(name, outcome) == [name |-> name, outcome |-> outcome]

\* raw = str(v).strip() and the test for an empty raw
Trim ==
    /\ pc = "start"
    /\ v.type = "str"
    /\ IF Strip(v.s) = <<>>
       THEN /\ out' = Raise("InvalidValueError", "Duration string cannot be empty")
            /\ frame' = [frame EXCEPT !.raw = Strip(v.s),
                                      !.steps = Append(@, Step("strip", "raise"))]
            /\ pc' = "raised"
       ELSE /\ out' = out
            /\ frame' = [frame EXCEPT !.raw = Strip(v.s),
                                      !.steps = Append(@, Step("strip", "done"))]
            /\ pc' = "stripped"
    /\ UNCHANGED <<v, fmt, v2, out2>>

\* raw, sign = _extract_sign(raw, v)
ExtractSign ==
    /\ pc = "stripped"
    /\ IF _extract_sign(frame.raw).ok
       THEN /\ out' = out
            /\ frame' = [frame EXCEPT !.raw = _extract_sign(frame.raw).val.raw,
                                      !.sign = _extract_sign(frame.raw).val.sign,
                                      !.steps = Append(@, Step("_extract_sign", "done"))]
            /\ pc' = "sign_extracted"
       ELSE /\ out' = _extract_sign(frame.raw)
            /\ frame' = [frame EXCEPT !.steps = Append(@, Step("_extract_sign", "raise"))]
            /\ pc' = "raised"
    /\ UNCHANGED <<v, fmt, v2, out2>>

\* the outcome of a matcher as a step records it
OutcomeOf(result) == IF result.matched THEN "match" ELSE "None"

\* a call that goes on to the compound matcher whatever the ISO matcher gave
AfterIsoAlways(result) == "iso_none"

\* if result is not None: return result
AfterIso(result) == IF result.matched THEN "returned" ELSE "iso_none"

\* result = _parse_iso8601(raw, sign)
TryIso ==
    /\ pc = "sign_extracted"
    /\ frame' = [frame EXCEPT !.result = _parse_iso8601(frame.raw, frame.sign),
                              !.steps = Append(@, Step("_parse_iso8601",
                                                        OutcomeOf(_parse_iso8601(frame.raw, frame.sign))))]
    /\ pc' = AfterIso(frame'.result)
    /\ out' = IF pc' = "returned" THEN Return(frame'.result.val) ELSE out
    /\ UNCHANGED <<v, fmt, v2, out2>>

\* result = _parse_compound(raw, sign), and the end of parse_duration
TryCompound ==
    /\ pc = "iso_none"
    /\ frame' = [frame EXCEPT !.result = _parse_compound(frame.raw, frame.sign),
                              !.steps = Append(@, Step("_parse_compound",
                                                        OutcomeOf(_parse_compound(frame.raw, frame.sign))))]
    /\ IF frame'.result.matched
       THEN out' = Return(frame'.result.val) /\ pc' = "returned"
       ELSE out' = Raise("InvalidFormatError", "Invalid duration format") /\ pc' = "raised"
    /\ UNCHANGED <<v, fmt, v2, out2>>

\* texts of one item, and ISO-8601 texts
StepInputs == TextsOf(1) \cup {sg \o b : sg \in SignParts, b \in OtherBodies}

InitSteps == InitWith({StrValue(t) : t \in StepInputs})

NextSteps == Trim \/ ExtractSign \/ TryIso \/ TryCompound

SpecSteps == InitSteps /\ [][NextSteps]_vars

\* the names of the steps taken, in order
StepNames == [i \in 1..Len(frame.steps) |-> frame.steps[i].name]

OutcomeOfStep(name) ==
    IF \E i \in 1..Len(frame.steps) : frame.steps[i].name = name
    THEN frame.steps[CHOOSE i \in 1..Len(frame.steps) : frame.steps[i].name = name].outcome
    ELSE "not run"

\* the call has ended
HasEnded == pc \in {"returned", "raised"}

\* the call, taken step by step, ends as parse_duration does
StepsAgree == HasEnded => out = parse_duration(v)

UpperChar(c) ==
    IF \E i \in 1..26 : LowerLetters[i] = c
    THEN UpperLetters[CHOOSE i \in 1..26 : LowerLetters[i] = c]
    ELSE c

\* str.upper() on ASCII
Upper(s) == [i \in 1..Len(s) |-> UpperChar(s[i])]

\* parse_duration(v.upper())
ParseUpper ==
    /\ pc = "parsed"
    /\ v.type = "str"
    /\ v2' = StrValue(Upper(v.s))
    /\ out2' = parse_duration(v2')
    /\ pc' = "upper"
    /\ UNCHANGED <<v, out, fmt, frame>>

\* parse_duration(v.lower())
ParseLower ==
    /\ pc = "parsed"
    /\ v.type = "str"
    /\ v2' = StrValue(Lower(v.s))
    /\ out2' = parse_duration(v2')
    /\ pc' = "lower"
    /\ UNCHANGED <<v, out, fmt, frame>>

\* the pieces the texts are put together from, in lower, upper and mixed
\* case: tokens, ISO-8601 durations, pieces of broken ones
CaseItems ==
    { <<>>,
      <<"3", "0", "s">>,
      <<"1", "H">>,
      <<"2", "M", "o">>,
      <<"1", " ", "M", "i", "n">>,
      <<"3", " ", "H", "o", "u", "r", "s">>,
      <<"0", ".", "7", "d">>,
      <<"P", "T", "3", "0", "S">>,
      <<"p", "1", "d", "t", "2", "h">>,
      <<"P", "1", "Y", "2", "M">>,
      <<"P", "t", "1", "H", "3", "0", "m">>,
      <<"-">>,
      <<" ">>,
      <<"x">>,
      <<"3", "0">>,
      <<"M", "s">>,
      <<"1", "E">> }

CaseInputs == {a \o b : a \in CaseItems, b \in CaseItems}

InitCase == InitWith({StrValue(t) : t \in CaseInputs})

NextCase == Parse \/ ParseUpper \/ ParseLower

SpecCase == InitCase /\ [][NextCase]_vars

\* both calls returned the same integer, or both failed with the same kind
\* of error
SameOutcome(a, b) ==
    /\ a.ok = b.ok
    /\ a.ok => a.val = b.val
    /\ ~a.ok => a.err = b.err

\* C17: parse_duration does not tell upper case from lower case: a text,
\* the text in upper case and the text in lower case all give the same
\* integer or all fail with the same kind of error, for the unit words of
\* compound texts and for the designators of ISO-8601 texts.
C17_CaseInsensitive ==
    pc \in {"upper", "lower"} => SameOutcome(out, out2)

\* a compound text with letters of both cases was accepted, and so was the
\* text in one case, which is another text
C17_Witness ==
    /\ pc \in {"upper", "lower"}
    /\ v.s # Upper(v.s) /\ v.s # Lower(v.s) /\ v2.s # v.s
    /\ ~IsIsoShaped(BodyOf(v.s))
    /\ out.ok /\ out.val # PyInt(0) /\ out2 = out

(***************************************************************************)
(* The pydantic types: Seconds = Annotated[int, BeforeValidator(           *)
(* parse_duration)], the adapter of that type, and fields of that type     *)
(* with a constraint. pydantic calls the before-validator on the raw       *)
(* input, turns a ValueError it raises into a ValidationError, validates   *)
(* what it returns as an int and then checks the constraints of the field. *)
(***************************************************************************)
\* the int of a text of digits after an optional sign
IsIntegerText(t) ==
    /\ t # <<>>
    /\ Len(t) > (IF t[1] \in {"+", "-"} THEN 1 ELSE 0)
    /\ \A i \in (IF t[1] \in {"+", "-"} THEN 2 ELSE 1)..Len(t) : IsDigit(t[i])

IntOfText(t) ==
    MkInt(t[1] = "-", DigitsToBig(IF t[1] \in {"+", "-"} THEN Tail(t) ELSE t, <<>>))

NotAnInt == Raise("ValidationError", "Input should be a valid integer")

\* the validation of the annotated type int, not strict: an int as it is, a
\* float without a fraction and a text of digits as the int they denote
IntSchema(x) ==
    IF x.type = "int" THEN Return(x.val)
    ELSE IF x.type = "float"
    THEN (IF x.special = "finite" /\ (x.val.e >= 0 \/ ~BigLowBitsSet(x.val.m, -x.val.e))
          THEN Return(IntOfFloat(x.val))
          ELSE NotAnInt)
    ELSE IF x.type = "str" /\ IsIntegerText(x.s) THEN Return(IntOfText(x.s))
    ELSE NotAnInt

\* BeforeValidator(parse_duration) with r what parse_duration gave: its value
\* goes on to the int validation; its ValueError becomes a ValidationError,
\* any other exception leaves the validation as it is
AfterBeforeValidator(r) ==
    IF r.ok THEN IntSchema(IntValue(r.val))
    ELSE IF IsSubclass(r.err, "ValueError") THEN Raise("ValidationError", r.msg)
    ELSE r

\* an adapter of plain int, without the before-validator
ValidatePlainInt(x) == IntSchema(x)

\* DurationAdapter.validate_python(x)
validate_python(x) == AfterBeforeValidator(parse_duration(x))

\* the constraints of the fields of DetailedTaskModel
Gt(bound) == [op |-> "gt", bound |-> bound]

Le(bound) == [op |-> "le", bound |-> bound]

Constraints == {Gt(PyInt(0)), Le(MkInt(FALSE, BigFromNat(24 * 3600)))}

\* -1, 0, 1 as a < b, a = b, a > b for integers
IntCmp(a, b) ==
    IF a.neg # b.neg THEN (IF a.neg THEN -1 ELSE 1)
    ELSE IF a.neg THEN BigCmp(b.mag, a.mag)
    ELSE BigCmp(a.mag, b.mag)

Satisfies(x, c) ==
    IF c.op = "gt" THEN IntCmp(x, c.bound) > 0 ELSE IntCmp(x, c.bound) <= 0

\* a field that does not look at its constraint
ConstrainNothing(r, c) == r

\* the constraint c of a field on the outcome r of the validation of its type
Constrain(r, c) ==
    IF ~r.ok THEN r
    ELSE IF Satisfies(r.val, c) THEN r
    ELSE Raise("ValidationError", "constraint")

\* DurationAdapter.validate_python(v), after parse_duration(v)
Validate ==
    /\ pc = "parsed"
    /\ v2' = v
    /\ out2' = validate_python(v)
    /\ pc' = "validated"
    /\ UNCHANGED <<v, out, fmt, frame>>

\* the second half of the validation of a field of type Seconds with the
\* constraint c, after the before-validator has run on the raw input v
CheckConstraint(c) ==
    /\ pc = "parsed"
    /\ v2' = c
    /\ out2' = Constrain(AfterBeforeValidator(out), c)
    /\ pc' = "checked"
    /\ UNCHANGED <<v, out, fmt, frame>>

\* every kind of input, and the texts given to the fields of DetailedTaskModel
FieldTexts ==
    { <<"4", "5", "s">>, <<"-", "3", "0", "s">>, <<"8", "h">>, <<"2", "5", "h">>,
      <<"2", "4", "h">>, <<"0", "s">>, <<"1", "h">>,
      <<"i", "n", "v", "a", "l", "i", "d">> }

AdapterInputs == KindInputs \cup {StrValue(t) : t \in FieldTexts}

InitAdapter == InitWith(AdapterInputs)

NextAdapter == Parse \/ Validate \/ \E c \in Constraints : CheckConstraint(c)

SpecAdapter == InitAdapter /\ [][NextAdapter]_vars

\* C19: the adapter passes parse_duration through: validate_python(x) returns
\* what parse_duration(x) returns for every int, float or text x that
\* parse_duration accepts, and fails for every text and every input of
\* another kind on which parse_duration fails.
C19_PassThrough ==
    pc = "validated"
        => /\ out.ok => out2 = out
           /\ (~out.ok /\ v.type \notin {"int", "float"}) => ~out2.ok

\* the adapter returned what parse_duration returned for a text with a unit
C19_Witness ==
    /\ pc = "validated"
    /\ v.type = "str" /\ ~IsIntegerText(v.s)
    /\ out.ok /\ out.val # PyInt(0) /\ out2 = out

\* whether the integer x is within a constraint, read off its sign and its
\* magnitude
IsWithin(x, c) ==
    IF c = Gt(PyInt(0)) THEN ~x.neg /\ x.mag # <<>>
    ELSE x.neg \/ BigCmp(x.mag, BigFromNat(86400)) <= 0

\* C20: on a field of a duration type with a range constraint the raw input
\* is parsed before the constraint is looked at, and the constraint is
\* checked on the integer seconds parse_duration gave: the field has a value
\* exactly when the raw input was parsed and the seconds are within the
\* constraint; '45s' under gt=0 is 45, '-30s' is parsed to -30 and then
\* refused by gt=0, and '8h' is held against le=86400 as 28800.
C20_ConstraintAfterParse ==
    pc = "checked"
        => /\ out2.ok <=> (out.ok /\ IsWithin(out.val, v2))
           /\ out2.ok => out2.val = out.val
           /\ (out.ok /\ ~out2.ok) => out2.err = "ValidationError"
           /\ (v = StrValue(<<"4", "5", "s">>) /\ v2 = Gt(PyInt(0)))
                 => out2 = Return(PyInt(45))
           /\ (v = StrValue(<<"-", "3", "0", "s">>) /\ v2 = Gt(PyInt(0)))
                 => out = Return(PyInt(-30)) /\ ~out2.ok
           /\ (v = StrValue(<<"8", "h">>) /\ v2.op = "le")
                 => out2 = Return(PyInt(28800))

\* a text was parsed to a negative number of seconds and the field with
\* gt=0 refused it
C20_Witness ==
    /\ pc = "checked"
    /\ v.type = "str" /\ v2 = Gt(PyInt(0))
    /\ out.ok /\ out.val.neg
    /\ ~out2.ok /\ out2.err = "ValidationError"

(***************************************************************************)
(* The quotients format_duration writes                                    *)
(***************************************************************************)
\* the largest quotient of each unit but the year: a year is 365 days, a
\* month 30 days, a week 7 days
LargestQuotient(u) ==
    CASE u = <<"m", "o">> -> 12
      [] u = <<"w">>      -> 4
      [] u = <<"d">>      -> 6
      [] u = <<"h">>      -> 23
      [] u = <<"m">>      -> 59
      [] u = <<"s">>      -> 59

QuotientOf(tok) == DigitsToBig(tok.q, <<>>)

\* C29: in every output of format_duration the month quotient is at most
\* 12, the week quotient at most 4, the day quotient at most 6, the hour
\* quotient at most 23 and the minute and second quotients at most 59; the
\* year quotient has no such limit.
C29_QuotientLimits ==
    (pc = "formatted_input" /\ fmt.ok)
        => /\ IsWellFormed(OutputTokens(OutputBody(fmt.val.s)))
           /\ \A i \in 1..Len(OutputTokens(OutputBody(fmt.val.s))) :
                 OutputTokens(OutputBody(fmt.val.s))[i].u # <<"y">>
                     => BigCmp(QuotientOf(OutputTokens(OutputBody(fmt.val.s))[i]),
                               BigFromNat(LargestQuotient(
                                   OutputTokens(OutputBody(fmt.val.s))[i].u))) <= 0

\* an output with the largest quotient of the month, that of the last
\* second of a year
C29_Witness ==
    /\ pc = "formatted_input" /\ fmt.ok
    /\ v.val = MkInt(FALSE, BigFromNat(SECONDS_PER_YEAR - 1))
    /\ \E j \in 1..Len(OutputTokens(OutputBody(fmt.val.s))) :
          /\ OutputTokens(OutputBody(fmt.val.s))[j].u = <<"m", "o">>
          /\ QuotientOf(OutputTokens(OutputBody(fmt.val.s))[j]) = BigFromNat(12)

(***************************************************************************)
(* Compound texts: unit words, fractions, white space and signs            *)
(***************************************************************************)
\* the largest number of tokens with a fraction in one text
MaxTokens == 3

\* t1 t2 ... of at most n pieces
RECURSIVE Sequences(_, _)
Sequences(pieces, n) ==
    IF n = 0 THEN {<<>>}
    ELSE Sequences(pieces, n - 1)
         \cup {t \o q : t \in Sequences(pieces, n - 1), q \in pieces}

\* one or two tokens of a small number and a word that begins with m: the
\* words of the month, the words of the minute, and words of neither
WordsWithM ==
    { <<"m", "o">>,
      <<"m", "o", "s">>,
      <<"m", "o", "n", "t", "h">>,
      <<"m", "o", "n", "t", "h", "s">>,
      <<"m">>,
      <<"m", "i", "n">>,
      <<"m", "i", "n", "s">>,
      <<"m", "i", "n", "u", "t", "e">>,
      <<"m", "i", "n", "u", "t", "e", "s">>,
      <<"m", "o", "n">>,
      <<"m", "i">>,
      <<"m", "s">> }

WordTexts ==
    Sequences({n \o w : n \in {<<"1">>, <<"2">>}, w \in WordsWithM}, 2) \ {<<>>}

\* tokens with a fraction, after a sign or none
FractionTokens ==
    { <<"0", ".", "5", "s">>,
      <<"0", ".", "7", "s">>,
      <<"0", ".", "2", "s">>,
      <<"0", ".", "1", "s">>,
      <<"1", ".", "5", "h">>,
      <<"3", "0", ".", "5", "s">>,
      <<"0", ".", "7", "d">> }

FractionTexts ==
    {sg \o t : sg \in {<<>>, <<"-">>, <<"+">>},
               t \in Sequences(FractionTokens, MaxTokens) \ {<<>>}}

\* one or two tokens with white space around the text, after the sign,
\* between a number and its unit and between the tokens
SpacedTokens ==
    {n \o gap \o u : gap \in {<<>>, <<" ">>},
                     n \in {<<"1">>, <<"3", "0">>, <<"1", "5">>},
                     u \in {<<"h">>, <<"m">>, <<"s">>}}

SpacedBodies ==
    SpacedTokens
    \cup {a \o sep \o b : a \in SpacedTokens, b \in SpacedTokens,
                          sep \in {<<>>, <<" ">>, <<"\n">>}}

SpacedTexts ==
    {lead \o sg \o b \o trail :
        lead \in {<<>>, <<" ">>}, sg \in {<<>>, <<"-">>, <<"-", " ">>},
        b \in SpacedBodies, trail \in {<<>>, <<" ">>}}

\* accepted texts with one more sign put in after any of their characters
Insert(t, i, c) == SubSeq(t, 1, i) \o <<c>> \o SubSeq(t, i + 1, Len(t))

InsertionsIn(t) == {Insert(t, i, c) : i \in 1..Len(t), c \in {"+", "-"}}

SignedTexts ==
    UNION {InsertionsIn(t) : t \in { <<"3", "0", "s">>,
                             <<"1", "h", "3", "0", "m">>,
                             <<"-", "3", "0", "s">>,
                             <<"+", "1", "h">>,
                             <<"1", ".", "5", "h", " ", "3", "0", "m">> }}

CompoundInputs == WordTexts \cup FractionTexts \cup SpacedTexts \cup SignedTexts

\* s without its white space
RECURSIVE WithoutSpace(_)
WithoutSpace(s) ==
    IF s = <<>> THEN <<>>
    ELSE (IF s[1] \in SpaceChars THEN <<>> ELSE <<s[1]>>) \o WithoutSpace(Tail(s))

\* parse_duration(v without its white space) for an accepted compound text v
ParseCompact ==
    /\ pc = "parsed"
    /\ v.type = "str"
    /\ out.ok
    /\ _parse_compound(_extract_sign(Strip(v.s)).val.raw, 1).matched
    /\ v2' = StrValue(WithoutSpace(v.s))
    /\ out2' = parse_duration(v2')
    /\ pc' = "compact"
    /\ UNCHANGED <<v, out, fmt, frame>>

InitCompound == InitWith({StrValue(t) : t \in CompoundInputs})

NextCompound == Parse \/ ParseCompact

SpecCompound == InitCompound /\ [][NextCompound]_vars

\* the words of the month and of the minute
MonthWords == Plural(<<"m", "o">>) \cup Plural(<<"m", "o", "n", "t", "h">>)

MinuteWords ==
    {<<"m">>} \cup Plural(<<"m", "i", "n">>) \cup Plural(<<"m", "i", "n", "u", "t", "e">>)

SmallLetters == {LowerLetters[i] : i \in 1..26}

\* s cut into tokens, each a run of digits q and the run of letters u after
\* it; a text that is no such tokens leaves a last token with no digits or
\* no letters
RECURSIVE NumberedWords(_)
NumberedWordsAfter(s, a, b) ==
    IF a + b = 0 THEN << [q |-> <<>>, u |-> s] >>
    ELSE << [q |-> SubSeq(s, 1, a), u |-> SubSeq(s, a + 1, a + b)] >>
         \o NumberedWords(SubSeq(s, a + b + 1, Len(s)))

NumberedWords(s) ==
    IF s = <<>> THEN <<>>
    ELSE NumberedWordsAfter(s, PrefixRun(s, DecimalDigits),
                            PrefixRun(SubSeq(s, PrefixRun(s, DecimalDigits) + 1, Len(s)),
                                      SmallLetters))

\* a text of whole numbers, each with a word that begins with m
IsOfWordsWithM(s) ==
    /\ s # <<>>
    /\ \A i \in 1..Len(NumberedWords(s)) :
          /\ NumberedWords(s)[i].q # <<>>
          /\ NumberedWords(s)[i].u # <<>> /\ NumberedWords(s)[i].u[1] = "m"

\* the seconds of the tokens from the i-th on, a month for a word of the
\* month and a minute for a word of the minute
RECURSIVE MonthsAndMinutesFrom(_, _)
MonthsAndMinutesFrom(toks, i) ==
    IF i > Len(toks) THEN <<>>
    ELSE BigAdd(BigMulSmall(DigitsToBig(toks[i].q, <<>>),
                            IF toks[i].u \in MonthWords THEN 2592000 ELSE 60),
                MonthsAndMinutesFrom(toks, i + 1))

\* C23: in a compound text a unit word that begins with mo (mo, mos, month,
\* months) is a month of 2592000 seconds, never a minute with letters left
\* over, and the words m, min, mins, minute, minutes are a minute of 60
\* seconds; a word that begins with m and is none of these is refused.
\* '1mo' is 2592000, '1m' is 60 and '1mo1m' is 2592060.
C23_MonthBeforeMinute ==
    (pc = "parsed" /\ v.type = "str" /\ IsOfWordsWithM(v.s))
        => IF \A i \in 1..Len(NumberedWords(v.s)) :
                 NumberedWords(v.s)[i].u \in MonthWords \cup MinuteWords
           THEN out = Return(MkInt(FALSE, MonthsAndMinutesFrom(NumberedWords(v.s), 1)))
           ELSE ~out.ok /\ out.err = "InvalidFormatError"

\* '1mo1m' was parsed to 2592060
C23_Witness ==
    /\ pc = "parsed"
    /\ v = StrValue(<<"1", "m", "o", "1", "m">>)
    /\ out = Return(MkInt(FALSE, BigFromNat(2592060)))

\* C24: the compound matcher truncates once, after summing: the result of an
\* accepted compound text without white space is its sign times the whole
\* seconds of the sum of the contributions of its tokens, so '0.5s0.5s' is 1,
\* '1.5h' is 5400, '30.5s' is 30 and '-30.5s' is -30.
C24_TruncatesOnce ==
    (pc = "parsed" /\ v.type = "str"
       /\ \A i \in 1..Len(v.s) : v.s[i] \notin WhiteSpace
       /\ IsCompoundText(BodyOf(v.s)))
        => /\ out.ok
           /\ out.val = MkInt(v.s[1] = "-", ExactSeconds(BodyOf(v.s)))

\* C25: white space around the text, between a number and its unit word and
\* between the tokens does not change the result: an accepted compound text
\* without all its white space is accepted with the same value; ' 30s ',
\* '1 h 30 m' and '1h 15m' give 30, 5400 and 4500, the values of '30s',
\* '1h30m' and '1h15m'.
C25_WhiteSpace ==
    /\ pc = "compact" => out2.ok /\ out2.val = out.val
    /\ (pc = "parsed" /\ v = StrValue(<<" ", "3", "0", "s", " ">>))
          => out = Return(PyInt(30))
    /\ (pc = "parsed" /\ v = StrValue(<<"1", " ", "h", " ", "3", "0", " ", "m">>))
          => out = Return(PyInt(5400))
    /\ (pc = "parsed" /\ v = StrValue(<<"1", "h", " ", "1", "5", "m">>))
          => out = Return(PyInt(4500))

\* a text with white space before, inside and between its tokens was
\* accepted, and the text without it gave the same value
C25_Witness ==
    /\ pc = "compact"
    /\ v.s = <<" ", "1", " ", "h", "\n", "3", "0", " ", "m", " ">>
    /\ v2.s = <<"1", "h", "3", "0", "m">>
    /\ out.ok /\ out2 = out

\* C27: a compound text takes one sign, at its very start: a '+' or '-'
\* after a token, inside a number, before a later token or as a second
\* leading sign makes parse_duration fail with InvalidFormatError.
C27_OneLeadingSign ==
    (pc = "parsed" /\ v.type = "str"
       /\ ~IsIsoShaped(BodyOf(v.s))
       /\ \E i \in 1..Len(BodyOf(v.s)) : IsSignChar(BodyOf(v.s)[i]))
        => ~out.ok /\ out.err = "InvalidFormatError"

\* '1h-30m' was refused
C27_Witness ==
    /\ pc = "parsed"
    /\ v = StrValue(<<"1", "h", "-", "3", "0", "m">>)
    /\ ~out.ok /\ out.err = "InvalidFormatError"

(***************************************************************************)
(* The ISO-8601 matcher takes the whole text, in the order of the grammar  *)
(***************************************************************************)
\* C26: the ISO-8601 matcher has to take the whole text: 'P' and 'PT' are 0,
\* and an accepted ISO-8601 text with one more character before it or after
\* it is accepted only if it is a text of the grammar again; if not, the call
\* fails with InvalidFormatError and does not return the value of the part
\* that matches. 'PT1X', 'PTXYZ', 'PT1H30' and '1PT30S' fail so.
C26_WholeText ==
    /\ pc = "extended"
          => IF IsIsoShaped(BodyOf(v2.s)) /\ IsIsoText(v2.s)
             THEN out2.ok
             ELSE ~out2.ok /\ out2.err = "InvalidFormatError"
    /\ (pc = "parsed" /\ v.type = "str" /\ v.s \in {<<"P">>, <<"P", "T">>})
          => out = Return(PyInt(0))
    /\ (pc = "parsed" /\ v.type = "str"
          /\ v.s \in {<<"P", "T", "1", "X">>, <<"P", "T", "X", "Y", "Z">>,
                      <<"P", "T", "1", "H", "3", "0">>,
                      <<"1", "P", "T", "3", "0", "S">>})
          => ~out.ok /\ out.err = "InvalidFormatError"

\* a text accepted with a non-zero value was refused with a digit after it
C26_Witness ==
    /\ pc = "extended"
    /\ out.ok /\ out.val # PyInt(0)
    /\ v2.s = v.s \o <<"1">>
    /\ ~out2.ok /\ out2.err = "InvalidFormatError"

\* the designators of the components cs
LettersOf(cs) == {cs[i].letter : i \in 1..Len(cs)}

\* a time component before any T
IsTimeWithoutT(p) == LettersOf(p.date) \cap {"h", "s"} # {}

\* hours, minutes and seconds after T, not in this order or one of them twice
IsTimeOutOfOrder(p) ==
    /\ LettersOf(p.time) \subseteq {"h", "m", "s"}
    /\ ~IsInOrder(p.time, <<"h", "m", "s">>)

\* a week component
HasWeek(p) == "w" \in LettersOf(p.date) \cup LettersOf(p.time)

\* years or months with a fraction
HasFractionalYearOrMonth(p) ==
    \E i \in 1..Len(p.date) :
        /\ p.date[i].letter \in {"y", "m"}
        /\ \E k \in 1..Len(p.date[i].num) : p.date[i].num[k] = "."

\* white space inside the text
HasInnerSpace(t) == \E i \in 1..Len(Trimmed(t)) : Trimmed(t)[i] \in WhiteSpace

\* C30: the ISO-8601 matcher takes the components only in the order Y, M, D,
\* then T, then H, M, S, with no white space inside: a time component without
\* T ('P1H', 'P1D2H'), time components out of order ('PT30M1H'), a week
\* component ('P1W'), a fractional year or month ('P1.5Y') or white space
\* inside ('PT 1H') make parse_duration fail with InvalidFormatError.
C30_ComponentOrder ==
    /\ (IsoParsed
          /\ \/ IsTimeWithoutT(IsoParts(v.s))
             \/ IsTimeOutOfOrder(IsoParts(v.s))
             \/ HasWeek(IsoParts(v.s))
             \/ HasFractionalYearOrMonth(IsoParts(v.s))
             \/ HasInnerSpace(v.s))
          => ~out.ok /\ out.err = "InvalidFormatError"
    /\ (pc = "parsed" /\ v.type = "str"
          /\ v.s \in {<<"P", "1", "H">>, <<"P", "1", "D", "2", "H">>,
                      <<"P", "T", "3", "0", "M", "1", "H">>, <<"P", "1", "W">>,
                      <<"P", "1", ".", "5", "Y">>, <<"P", "T", " ", "1", "H">>})
          => ~out.ok /\ out.err = "InvalidFormatError"

\* 'P1D2H', hours after the days with no T between, was refused
C30_Witness ==
    /\ IsoParsed
    /\ v.s = <<"P", "1", "D", "2", "H">>
    /\ IsTimeWithoutT(IsoParts(v.s))
    /\ ~out.ok /\ out.err = "InvalidFormatError"

(***************************************************************************)
(* The two matchers side by side                                           *)
(***************************************************************************)
\* the compound matcher tried first, the ISO-8601 matcher if it gave None
CompoundFirst(raw, sign) ==
    FirstFormat(_parse_compound(raw, sign), _parse_iso8601(raw, sign))

\* both matchers called on raw and sign: their outcomes, and the result of
\* the compound matcher
BothFormats(raw, sign) ==
    [raw    |-> raw,
     sign   |-> sign,
     result |-> _parse_compound(raw, sign),
     steps  |-> << Step("_parse_iso8601", OutcomeOf(_parse_iso8601(raw, sign))),
                   Step("_parse_compound", OutcomeOf(_parse_compound(raw, sign))) >>]

\* after parse_duration(v): both matchers on the text v as parse_duration
\* hands it to them, and the call again with the compound matcher first
TryBoth ==
    /\ pc = "parsed"
    /\ v.type = "str" /\ Strip(v.s) # <<>> /\ _extract_sign(Strip(v.s)).ok
    /\ frame' = BothFormats(_extract_sign(Strip(v.s)).val.raw,
                            _extract_sign(Strip(v.s)).val.sign)
    /\ v2' = v
    /\ out2' = CompoundFirst(_extract_sign(Strip(v.s)).val.raw,
                             _extract_sign(Strip(v.s)).val.sign)
    /\ pc' = "both"
    /\ UNCHANGED <<v, out, fmt>>

\* after format_duration(v): both matchers on the output
MatchOutput ==
    /\ pc = "formatted_input"
    /\ fmt.ok
    /\ frame' = BothFormats(_extract_sign(Strip(fmt.val.s)).val.raw,
                            _extract_sign(Strip(fmt.val.s)).val.sign)
    /\ pc' = "output_matched"
    /\ UNCHANGED <<v, out, fmt, v2, out2>>

InitBoth ==
    InitWith({StrValue(t) : t \in StepInputs \cup WordTexts}
             \cup {IntValue(x) : x \in IntInputs})

NextBoth == Parse \/ TryBoth \/ FormatInput \/ MatchOutput

SpecBoth == InitBoth /\ [][NextBoth]_vars

\* C28: the two grammars are disjoint: no text is matched by both the
\* ISO-8601 matcher and the compound matcher after its sign is taken off; a
\* text the ISO-8601 matcher takes begins with P or a sign, a text the
\* compound matcher takes with a digit; so the call with the compound
\* matcher tried first gives the result or the failure of parse_duration,
\* and every output of format_duration is matched by the compound matcher
\* and not by the ISO-8601 matcher.
C28_DisjointGrammars ==
    /\ pc \in {"both", "output_matched"}
          => /\ ~(frame.steps[1].outcome = "match" /\ frame.steps[2].outcome = "match")
             /\ frame.steps[1].outcome = "match"
                   => frame.raw[1] \in {"P", "p", "+", "-"}
             /\ frame.steps[2].outcome = "match" => frame.raw[1] \in DecimalDigits
    /\ pc = "both" => out2 = out
    /\ pc = "output_matched"
          => /\ frame.steps[1].outcome = "None"
             /\ frame.steps[2].outcome = "match" /\ frame.result.matched

\* an ISO-8601 text gave the same non-zero result with the compound matcher
\* tried first
C28_Witness ==
    /\ pc = "both"
    /\ frame.steps[1].outcome = "match" /\ frame.steps[2].outcome = "None"
    /\ out.ok /\ out.val # PyInt(0) /\ out2 = out

(***************************************************************************)
(* Calls one after the other                                               *)
(***************************************************************************)
\* locals that outlive their call
KeptFrame(old) == old

\* the locals of a call: raw, sign and result are bound anew by every call,
\* and the module has no other variable a call assigns to
NewFrame(old) == NoFrame

\* result = DurationAdapter.validate_python(v)
ValidateInput ==
    /\ pc = "start"
    /\ out' = validate_python(v)
    /\ pc' = "validated_input"
    /\ UNCHANGED <<v, fmt, v2, out2, frame>>

\* the call has returned or raised
CallEnded == pc \in {"returned", "raised", "parsed", "formatted_input", "validated_input"}

\* the next call, on x, after a call that has ended; v2 and out2 keep the
\* input and the outcome of the call before
NextCall(x) ==
    /\ CallEnded
    /\ v2' = v
    /\ out2' = IF pc = "formatted_input" THEN fmt ELSE out
    /\ v' = x
    /\ out' = NotCalled
    /\ fmt' = NotCalled
    /\ frame' = NewFrame(frame)
    /\ pc' = "start"

\* inputs of every kind, accepted and refused
CallInputs ==
    {NoneValue, OtherValue("list"), IntValue(PyInt(30)), IntValue(PyInt(-3600)),
     SpecialFloat("nan"), FloatValue(FloatOfRatio(FALSE, BigFromNat(305), 10))}
    \cup {StrValue(t) : t \in
            { <<"1", "h", "3", "0", "m">>,
              <<"P", "T", "3", "0", "S">>,
              <<"-", "3", "0", "s">>,
              <<"i", "n", "v", "a", "l", "i", "d">>,
              <<>>,
              <<"3", "0">>,
              <<"+">>,
              <<"1", ".", "5", "h">>,
              <<"-", "P", "T", "-", "9", "0", "S">> }}

InitCalls == InitWith(CallInputs)

NextCalls ==
    \/ Trim \/ ExtractSign \/ TryIso \/ TryCompound
    \/ Parse \/ FormatInput \/ ValidateInput
    \/ \E x \in CallInputs : NextCall(x)

SpecCalls == InitCalls /\ [][NextCalls]_vars

\* C22: a failed call changes nothing observable: after any sequence of
\* failing and succeeding calls to parse_duration, format_duration and
\* DurationAdapter.validate_python, a call begins with nothing left of the
\* calls before (its locals are unset) and ends with the result of the same
\* call made first: taken step by step or at once, parse_duration ends as
\* parse_duration(v), format_duration as format_duration(v), validate_python
\* as validate_python(v), and the steps it took are those of this call only.
C22_NothingLeftBehind ==
    /\ pc = "start" => frame = NoFrame /\ out = NotCalled /\ fmt = NotCalled
    /\ pc \in {"returned", "raised", "parsed"} => out = parse_duration(v)
    /\ pc = "formatted_input" => fmt = format_duration(v)
    /\ pc = "validated_input" => out = validate_python(v)
    /\ Len(frame.steps) <= 4
    /\ frame.steps # <<>> => frame.steps[1].name = "strip"

\* after a call that failed, a call taken step by step has returned a value
C22_Witness ==
    /\ pc = "returned"
    /\ v2 # NoValue /\ ~out2.ok /\ out2 # NotCalled
    /\ out.ok /\ out = parse_duration(v)
    /\ Len(frame.steps) >= 3

(***************************************************************************)
(* Calls from several threads                                              *)
(***************************************************************************)
\* the number of threads
NumThreads == 2

Threads == 1..NumThreads

\* what the module holds for all threads: the one adapter instance
Module == [DurationAdapter |-> 1]

Call(op, arg) == [op |-> op, arg |-> arg]

\* the calls of the workers
Calls ==
    { Call("parse_duration", StrValue(<<"1", "h", "3", "0", "m">>)),
      Call("parse_duration", StrValue(<<"P", "T", "3", "0", "S">>)),
      Call("parse_duration", StrValue(<<"-", "5", "m">>)),
      Call("parse_duration", IntValue(PyInt(3600))),
      Call("format_duration", IntValue(PyInt(5400))),
      Call("validate_python", StrValue(<<"1", "h", "3", "0", "m">>)),
      Call("validate_python", StrValue(<<"P", "T", "1", "H">>)),
      Call("validate_python", StrValue(<<"i", "n", "v", "a", "l", "i", "d">>)) }

\* one set of locals for all threads
FrameShared(t) == 1

\* the locals a thread works on: those of its own call
FrameOf(t) == t

\* a call that goes on at p with the locals loc
GoOn(p, loc) == [pc |-> p, frame |-> loc, out |-> NotCalled]

\* the end of a call: what parse_duration gave, through the validation if
\* the call is the adapter's
Finish(op, res, loc) ==
    [pc    |-> "done",
     frame |-> loc,
     out   |-> IF op = "validate_python" THEN AfterBeforeValidator(res) ELSE res]

AfterExtractSign(op, signed, loc) ==
    IF signed.ok
    THEN GoOn("sign_extracted", [loc EXCEPT !.raw = signed.val.raw, !.sign = signed.val.sign])
    ELSE Finish(op, signed, loc)

AfterMatcher(op, result, loc, otherwise) ==
    IF result.matched
    THEN Finish(op, Return(result.val), [loc EXCEPT !.result = result])
    ELSE otherwise

\* one step of a call at p with the locals loc: format_duration and
\* parse_duration on a number at once, parse_duration on a text statement by
\* statement, reading and writing its locals
CallStep(op, arg, p, loc) ==
    IF op = "format_duration" THEN Finish(op, format_duration(arg), loc)
    ELSE IF arg.type # "str" THEN Finish(op, parse_duration(arg), loc)
    ELSE IF p = "start"
    THEN (IF Strip(arg.s) = <<>>
          THEN Finish(op, Raise("InvalidValueError", "Duration string cannot be empty"), loc)
          ELSE GoOn("stripped", [loc EXCEPT !.raw = Strip(arg.s)]))
    ELSE IF p = "stripped" THEN AfterExtractSign(op, _extract_sign(loc.raw), loc)
    ELSE IF p = "sign_extracted"
    THEN AfterMatcher(op, _parse_iso8601(loc.raw, loc.sign), loc,
                      GoOn("iso_none", [loc EXCEPT !.result = None]))
    ELSE AfterMatcher(op, _parse_compound(loc.raw, loc.sign), loc,
                      Finish(op, Raise("InvalidFormatError", "Invalid duration format"),
                             loc))

\* thread t takes the next step of its call
ThreadStep(t, op) ==
    /\ pc[t] # "done"
    /\ v[t].op = op
    /\ pc' = [pc EXCEPT ![t] = CallStep(op, v[t].arg, pc[t], frame[FrameOf(t)]).pc]
    /\ frame' = [frame EXCEPT
                    ![FrameOf(t)] = CallStep(op, v[t].arg, pc[t], frame[FrameOf(t)]).frame]
    /\ out' = [out EXCEPT ![t] = CallStep(op, v[t].arg, pc[t], frame[FrameOf(t)]).out]
    /\ out2' = [out2 EXCEPT ![t] = IF op = "validate_python" THEN v2.DurationAdapter ELSE @]
    /\ UNCHANGED <<v, fmt, v2>>

ParseStep(t) == ThreadStep(t, "parse_duration")

FormatCall(t) == ThreadStep(t, "format_duration")

ValidateStep(t) == ThreadStep(t, "validate_python")

InitThreads ==
    /\ pc = [t \in Threads |-> "start"]
    /\ v \in [Threads -> Calls]
    /\ out = [t \in Threads |-> NotCalled]
    /\ frame = [t \in Threads |-> NoFrame]
    /\ fmt = NotCalled
    /\ v2 = Module
    /\ out2 = [t \in Threads |-> 0]

NextThreads ==
    \E t \in Threads : ParseStep(t) \/ FormatCall(t) \/ ValidateStep(t)

SpecThreads == InitThreads /\ [][NextThreads]_vars

\* the call run alone
Alone(call) ==
    IF call.op = "parse_duration" THEN parse_duration(call.arg)
    ELSE IF call.op = "format_duration" THEN format_duration(call.arg)
    ELSE validate_python(call.arg)

\* C21: under every interleaving of the steps of concurrent calls to
\* parse_duration, format_duration and DurationAdapter.validate_python, every
\* call ends with the result of the same call run alone; a call that has not
\* begun finds its locals untouched by the others, what the module holds is
\* not written, and every thread that validates uses the one adapter.
C21_ThreadSafe ==
    /\ \A t \in Threads : pc[t] = "done" => out[t] = Alone(v[t])
    /\ \A t \in Threads : pc[t] = "start" => frame[t] = NoFrame /\ out[t] = NotCalled
    /\ v2 = Module
    /\ \A t \in Threads : out2[t] \in {0, Module.DurationAdapter}

\* a call on a text has ended with its result while a call on another text
\* was between its two matchers
C21_Witness ==
    /\ pc[1] = "done" /\ pc[2] = "iso_none"
    /\ v[1].op = "validate_python" /\ v[2].op = "parse_duration"
    /\ frame[1].raw # <<>> /\ frame[2].raw # <<>> /\ frame[1].raw # frame[2].raw
    /\ out[1].ok /\ out[1] = Alone(v[1])
    /\ out2[1] = Module.DurationAdapter

====
